---- MODULE Spec2Model ----
(***************************************************************************)
(* mp4-merge: the descriptor builder (read_desc), the timeline/gap engine  *)
(* (compute_gaps_and_edit_lists) and the orchestrator that drives them     *)
(* (join_file_streams_with_metadata).                                      *)
(*                                                                         *)
(* Conventions.  Sequences are 1-based here and 0-based in the source: the *)
(* file with source index i is element i+1, track index t is element t+1.  *)
(* An f64 is modelled as an exact rational (record F below) or NaN; the    *)
(* input domains are chosen so that every f64 operation the code performs  *)
(* on them is exact.  A division of a positive value by 0 is an infinity;   *)
(* only the inputs of SpecZero have headers that lead to one.              *)
(***************************************************************************)
EXTENDS Integers, Sequences, FiniteSets, TLC

VARIABLES
    files,      \* the input files: for each one its mdat region and its box tree
    desc,       \* desc_reader::Desc
    pc,         \* position of join_file_streams_with_metadata
    i,          \* index of the file being processed (1-based)
    stack,      \* the active read_desc invocations, innermost first
    pre,        \* desc as it was when compute_gaps_and_edit_lists was called
                \* (the empty Desc before the call)
    first,      \* desc.moov_tracks as it was when the first file was finished
                \* (empty before that)
    insta360_max_read,  \* the cap found by the trailer probe, or None
    out,        \* the output file: the boxes written, and the bytes that the
                \* post-patch wrote outside a chunk-offset table
    log,        \* the steps of the merge and the progress callbacks, in order
    merged      \* the inputs and the Desc of a finished merge whose output is
                \* being read back (empty before that)

vars == <<files, desc, pc, i, stack, pre, first, insta360_max_read, out, log,
          merged>>

\* Option::None, in the place of a creation time or of a file index
None == -1

----------------------------------------------------------------------------
(* f64 arithmetic *)

RECURSIVE Gcd(_, _)
Gcd(a, b) == IF b = 0 THEN a ELSE Gcd(b, a % b)

Abs(x) == IF x < 0 THEN -x ELSE x

NaN == [k |-> "nan", n |-> 0, d |-> 1]

\* the infinities: a positive value divided by 0, and what is taken from it
Inf    == [k |-> "inf", n |-> 1, d |-> 0]
NegInf == [k |-> "-inf", n |-> -1, d |-> 0]

\* u64::MAX and i64::MAX, which a cast of an infinity saturates to.  The
\* checker's integers have 32 bits: the largest of them stands for both, and
\* every other number of the model is far below it
U64_MAX == 2147483647
I64_MAX == 2147483647

\* the f64 n/d, d > 0, in lowest terms
Fin(n, d) ==
    LET g == Gcd(Abs(n), d)
    IN  [k |-> "fin", n |-> n \div g, d |-> d \div g]

Zero == Fin(0, 1)

\* a as f64 / b as f64, for unsigned a and b (0/0 is NaN, a/0 is infinite)
FDiv(a, b) == IF b = 0 THEN (IF a = 0 THEN NaN ELSE Inf) ELSE Fin(a, b)

\* x * (t as f64), t unsigned (an infinity times 0 is NaN)
FMul(x, t) ==
    CASE x.k = "nan" -> NaN
      [] x.k = "fin" -> Fin(x.n * t, x.d)
      [] OTHER       -> IF t = 0 THEN NaN ELSE x

\* x - y
FSub(x, y) ==
    CASE x.k = "nan" \/ y.k = "nan" -> NaN
      [] x.k = "fin" /\ y.k = "fin" -> Fin(x.n * y.d - y.n * x.d, x.d * y.d)
      [] x.k = y.k   -> NaN
      [] x.k = "fin" -> IF y.k = "inf" THEN NegInf ELSE Inf
      [] OTHER       -> x

\* x > 0.0 and x > 1.0 (false for NaN)
FGt0(x) == (x.k = "fin" /\ x.n > 0) \/ x.k = "inf"
FGt1(x) == (x.k = "fin" /\ x.n > x.d) \/ x.k = "inf"

\* x.ceil() as u64: the cast sends NaN and negative values to 0, and the
\* infinity to u64::MAX
CeilU64(x) ==
    CASE x.k = "inf" -> U64_MAX
      [] x.k = "fin" /\ x.n > 0 -> (x.n + x.d - 1) \div x.d
      [] OTHER -> 0

\* a cast without round(): the fraction is dropped
RoundU64_truncating(x) ==
    CASE x.k = "inf" -> U64_MAX
      [] x.k = "fin" /\ x.n > 0 -> x.n \div x.d
      [] OTHER -> 0

\* x.round() as u64: round half away from zero
RoundU64(x) ==
    CASE x.k = "inf" -> U64_MAX
      [] x.k = "fin" /\ x.n > 0 -> (2 * x.n + x.d) \div (2 * x.d)
      [] OTHER -> 0

\* x.round() as i64, for the values that occur: none is negative
RoundI64(x) == IF x.k = "inf" THEN I64_MAX ELSE RoundU64(x)

\* a += b on u64, b added to a.  Beyond u64::MAX a debug build panics and a
\* release build wraps around
Overflows(a, b) == a > U64_MAX - b
Wrapping(a, b)  == IF Overflows(a, b) THEN a - (U64_MAX - b) - 1 ELSE a + b
\* whether this build panics on the overflow
Builds(a, b)    == IF Overflows(a, b) THEN BOOLEAN ELSE {FALSE}

----------------------------------------------------------------------------
(* desc_reader.rs: the data model *)

MEDIA_RATE == 65536     \* 0x00010000

TrackDesc ==
    [tkhd_duration |-> 0, elst_segment_duration |-> 0,
     mdhd_timescale |-> 0, mdhd_duration |-> 0,
     stts |-> <<>>, stsz |-> <<>>, stco |-> <<>>, stss |-> <<>>, sdtp |-> <<>>,
     sample_offset |-> 0, chunk_offset |-> 0,
     stsz_sample_size |-> 0, stsz_count |-> 0, stsc |-> <<>>,
     co64_final_position |-> 0, skip |-> FALSE,
     elst_entries |-> <<>>, handler_type |-> ""]

EditListEntry(segment_duration, media_time) ==
    [segment_duration |-> segment_duration, media_time |-> media_time,
     media_rate |-> MEDIA_RATE]

Desc ==
    [mdat_position |-> <<>>, mvhd_timescale_per_file |-> <<>>,
     moov_mvhd_timescale |-> 0, moov_mvhd_duration |-> 0,
     moov_tracks |-> <<>>, mdat_offset |-> 0, mdat_final_position |-> 0,
     file_creation_times |-> <<>>, file_durations |-> <<>>,
     track_file_durations |-> <<>>]

RECURSIVE SumSeq(_)
SumSeq(s) == IF s = <<>> THEN 0 ELSE Head(s) + SumSeq(Tail(s))

----------------------------------------------------------------------------
(* desc_reader.rs: the timeline/gap engine *)

\* any positive net gap counts, the one-second threshold is forgotten
compute_gap_duration_any(D, p, c) ==
    LET prev_time    == D.file_creation_times[p]
        current_time == D.file_creation_times[c]
    IN  IF prev_time # None /\ current_time # None /\ current_time >= prev_time
        THEN LET net_gap == FSub(Fin(current_time - prev_time, 1),
                                 D.file_durations[p])
             IN  IF FGt0(net_gap) THEN net_gap ELSE Zero
        ELSE Zero

\* the gap in seconds between the end of file p and the creation of file c
compute_gap_duration(D, p, c) ==
    LET prev_time    == D.file_creation_times[p]
        current_time == D.file_creation_times[c]
    IN  IF prev_time # None /\ current_time # None /\ current_time >= prev_time
        THEN LET gap_seconds == Fin(current_time - prev_time, 1)
                 net_gap     == FSub(gap_seconds, D.file_durations[p])
             IN  IF FGt1(net_gap) THEN net_gap ELSE Zero
        ELSE Zero

Gaps(D) ==
    [f \in 1 .. (Len(D.file_creation_times) - 1) |->
        compute_gap_duration(D, f, f + 1)]

\* the per-track table is ignored
TrackFileDuration_legacy(D, t, f) ==
    IF f <= Len(D.file_durations) THEN D.file_durations[f] ELSE Zero

\* the duration of file f for track t: the per-track table, else the legacy one
TrackFileDuration(D, t, f) ==
    IF t <= Len(D.track_file_durations) /\ f <= Len(D.track_file_durations[t])
    THEN D.track_file_durations[t][f]
    ELSE IF f <= Len(D.file_durations) THEN D.file_durations[f] ELSE Zero

\* the loop over the files for one track, from file f on
RECURSIVE ElstLoop(_, _, _, _, _)
ElstLoop(D, gaps, t, f, cumulative_media_time) ==
    IF f > Len(D.file_creation_times) THEN <<>>
    ELSE
      LET gap_entry ==
            IF f > 1 /\ FGt0(gaps[f - 1])
            THEN << EditListEntry(
                      RoundU64(FMul(gaps[f - 1], D.moov_mvhd_timescale)), -1) >>
            ELSE <<>>
          d == TrackFileDuration(D, t, f)
          media_entry ==
            IF FGt0(d)
            THEN << EditListEntry(RoundU64(FMul(d, D.moov_mvhd_timescale)),
                                  cumulative_media_time) >>
            ELSE <<>>
          next_media_time ==
            IF FGt0(d) /\ D.moov_tracks[t].mdhd_timescale > 0
            THEN cumulative_media_time
                   + RoundI64(FMul(d, D.moov_tracks[t].mdhd_timescale))
            ELSE cumulative_media_time
      IN  gap_entry \o media_entry \o ElstLoop(D, gaps, t, f + 1, next_media_time)

SegmentDurations(entries) ==
    [e \in 1 .. Len(entries) |-> entries[e].segment_duration]

\* the duration is left in movie timescale units
TkhdFromElst_unconverted(elst_segment_duration, movie_timescale, mdhd_timescale) ==
    elst_segment_duration

\* the conversion rounds up
TkhdFromElst_ceil(elst_segment_duration, movie_timescale, mdhd_timescale) ==
    IF movie_timescale > 0 /\ mdhd_timescale > 0
    THEN CeilU64(FMul(FDiv(elst_segment_duration, movie_timescale),
                      mdhd_timescale))
    ELSE elst_segment_duration

\* movie timescale units converted to the track's media timescale
TkhdFromElst(elst_segment_duration, movie_timescale, mdhd_timescale) ==
    IF movie_timescale > 0 /\ mdhd_timescale > 0
    THEN RoundU64(FMul(FDiv(elst_segment_duration, movie_timescale),
                       mdhd_timescale))
    ELSE elst_segment_duration

\* one iteration of the loop over the tracks
\* elst_segment_duration keeps the total of the edit lists that were read
GapTrack_stale(D, gaps, t) ==
    LET track == D.moov_tracks[t]
    IN  IF track.skip THEN track
        ELSE LET entries == ElstLoop(D, gaps, t, 1, 0)
                 total   == SumSeq(SegmentDurations(entries))
             IN  [track EXCEPT
                    !.elst_entries = entries,
                    !.tkhd_duration =
                        TkhdFromElst(total, D.moov_mvhd_timescale,
                                     track.mdhd_timescale)]

GapTrack(D, gaps, t) ==
    LET track == D.moov_tracks[t]
    IN  IF track.skip THEN track
        ELSE LET entries == ElstLoop(D, gaps, t, 1, 0)
                 total   == SumSeq(SegmentDurations(entries))
             IN  [track EXCEPT
                    !.elst_entries = entries,
                    !.elst_segment_duration = total,
                    !.tkhd_duration =
                        TkhdFromElst(total, D.moov_mvhd_timescale,
                                     track.mdhd_timescale)]

\* the movie header is not updated
MovieDurationAfterGaps_kept(D, tracks) == D.moov_mvhd_duration

\* the movie duration after the tracks were rebuilt
MovieDurationAfterGaps(D, tracks) ==
    IF Len(tracks) > 0 /\ ~tracks[1].skip /\ tracks[1].elst_entries # <<>>
    THEN tracks[1].elst_segment_duration
    ELSE D.moov_mvhd_duration

HasTimestamps(D) ==
    \E f \in 1 .. Len(D.file_creation_times) : D.file_creation_times[f] # None

HasGaps(D) ==
    \E f \in 1 .. (Len(D.file_creation_times) - 1) : FGt0(Gaps(D)[f])

\* the edit lists are rebuilt whether or not there is a gap
compute_gaps_and_edit_lists_always(D) ==
    LET gaps   == Gaps(D)
        tracks == [t \in 1 .. Len(D.moov_tracks) |-> GapTrack(D, gaps, t)]
    IN  [D EXCEPT !.moov_tracks = tracks,
                  !.moov_mvhd_duration = MovieDurationAfterGaps(D, tracks)]

compute_gaps_and_edit_lists(D) ==
    IF ~HasTimestamps(D) THEN D
    ELSE IF ~HasGaps(D) THEN D
    ELSE LET gaps   == Gaps(D)
             tracks == [t \in 1 .. Len(D.moov_tracks) |-> GapTrack(D, gaps, t)]
         IN  [D EXCEPT !.moov_tracks = tracks,
                       !.moov_mvhd_duration = MovieDurationAfterGaps(D, tracks)]

----------------------------------------------------------------------------
(* The input files.  A box is a record; kids are the boxes of a container *)
(* body, the other fields are what the descriptor builder reads from a    *)
(* leaf body.                                                             *)

(* version is the first byte of a full box body, and words are the 4-byte  *)
(* words of a header body after its version and flags.                    *)

Box(typ, kids, timescale, duration, sample_size, count, entries) ==
    [typ |-> typ, kids |-> kids, timescale |-> timescale, duration |-> duration,
     sample_size |-> sample_size, count |-> count, entries |-> entries,
     version |-> 0, words |-> <<>>]

\* desc_reader.rs lines 82-85, 95-96 and 100-103: the bytes after version
\* and flags that are passed over before the timescale and before the
\* duration of a header are read
timescale_at(typ, v) == IF v = 1 THEN 8 + 8 ELSE 4 + 4

duration_at(typ, v) ==
    IF typ = "tkhd" THEN (IF v = 1 THEN 8 + 8 + 4 + 4 ELSE 4 + 4 + 4 + 4)
    ELSE timescale_at(typ, v) + 4

\* read_u32 and read_u64 at this many bytes into the words; the numbers of
\* the model are below 2^32, a number with a high word is beyond them
read_u32(words, at) == words[at \div 4 + 1]

read_u64(words, at) ==
    IF words[at \div 4 + 1] = 0 THEN words[at \div 4 + 2] ELSE U64_MAX

header_timescale(box) ==
    IF box.typ = "tkhd" THEN 0
    ELSE read_u32(box.words, timescale_at(box.typ, box.version))

header_duration(box) ==
    IF box.version = 1
    THEN read_u64(box.words, duration_at(box.typ, box.version))
    ELSE read_u32(box.words, duration_at(box.typ, box.version))

\* the words of the body of a header after version and flags: 96, 80 and 20
\* bytes in version 0, and 12 more with the three 8-byte fields of version 1
HeaderLength(typ, v) ==
    (CASE typ = "mvhd" -> 24 [] typ = "tkhd" -> 20 [] typ = "mdhd" -> 5)
    + (IF v = 1 THEN 3 ELSE 0)

\* a header from which the builder reads this timescale and this duration;
\* every other word has a value of its own
HeaderWords(typ, v, ts, dur) ==
    [k \in 1 .. HeaderLength(typ, v) |->
        LET at == 4 * (k - 1)
        IN  CASE typ # "tkhd" /\ at = timescale_at(typ, v) -> ts
              [] at = duration_at(typ, v) -> IF v = 1 THEN 0 ELSE dur
              [] v = 1 /\ at = duration_at(typ, v) + 4 -> dur
              [] OTHER -> 100 + k]

Header(typ, v, ts, dur) ==
    [Box(typ, <<>>, ts, dur, 0, 0, <<>>) EXCEPT
        !.version = v, !.words = HeaderWords(typ, v, ts, dur)]

Leaf(typ)            == Box(typ, <<>>, 0, 0, 0, 0, <<>>)
Container(typ, kids) == Box(typ, kids, 0, 0, 0, 0, <<>>)
Mvhd(ts, dur)        == Header("mvhd", 0, ts, dur)
Tkhd(dur)            == Header("tkhd", 0, 0, dur)
Mdhd(ts, dur)        == Header("mdhd", 0, ts, dur)
Table(typ, entries)  == Box(typ, <<>>, 0, 0, 0, Len(entries), entries)
Stsz(size, count, entries) == Box("stsz", <<>>, 0, 0, size, count, entries)
Hdlr(handler)        == Box("hdlr", <<>>, 0, 0, 0, 0, <<handler>>)
\* the version/flags and entry count that open the body of stsd: read_box
\* takes them for a box header whose size field is 0
ZeroSized            == Leaf("size0")
\* the place where a truncated file ends: the last thing of the container it
\* is in, or the only thing in a leaf whose body the file ends in; missing
\* are the bytes that the boxes around it count and the file does not have
Eof(missing)         == Box("eof", <<>>, 0, 0, 0, missing, <<>>)

\* lib.rs: has_children(typ, true)
has_children_read(typ) ==
    typ \in {"moov", "trak", "edts", "mdia", "minf", "stbl", "stsd"}

HeaderTypes  == {"mvhd", "tkhd", "mdhd"}
CountedTypes == {"stss", "stco", "co64", "stts", "stsc"}
TableTypes   == {"elst", "stsz", "sdtp"} \cup CountedTypes

\* the size field of a box of an input file (version 0 layouts; read_box,
\* lib.rs 43-53, returns it): the 8-byte header and the body
RECURSIVE InSize(_, _)
SumSizes(boxes, mdat_length) ==
    SumSeq([b \in 1 .. Len(boxes) |-> InSize(boxes[b], mdat_length)])

InSize(box, mdat_length) ==
    LET n == Len(box.entries)
    IN  CASE box.typ = "size0" -> 8
          [] box.typ = "eof"   -> box.count
          [] box.typ = "mdat"  -> 8 + mdat_length
          [] box.typ = "ftyp"  -> 16 + 4 * n
          [] box.typ \in {"mvhd", "tkhd", "mdhd"} -> 12 + 4 * Len(box.words)
          [] box.typ = "hdlr"  -> 33
          [] box.typ = "elst"  -> 16 + 12 * n
          [] box.typ = "stts"  -> 16 + 8 * n
          [] box.typ = "stss"  -> 16 + 4 * n
          [] box.typ = "sdtp"  -> 12 + n
          [] box.typ = "stsc"  -> 16 + 12 * n
          [] box.typ = "stsz"  -> 20 + 4 * n
          [] box.typ = "stco"  -> 16 + 4 * n
          [] box.typ = "co64"  -> 16 + 8 * n
          [] OTHER -> 8 + SumSizes(box.kids, mdat_length)

----------------------------------------------------------------------------
(* desc_reader.rs: read_desc, one box at a time *)

TRACK_CAPACITY == 10

\* ((duration / from) * to).ceil() as u64
CeilScale(duration, from, to) == CeilU64(FMul(FDiv(duration, from), to))

\* the frame of the innermost read_desc invocation and the box it reads next
Top      == Head(stack)
NextBox  == Head(Top.boxes)
Present  == pc = "read_desc" /\ stack # <<>> /\ Top.boxes # <<>>
\* the track the innermost invocation is at (tl_track, 0-based) as an index
TlTrack  == Top.tl_track + 1
HasTrack == TlTrack <= Len(desc.moov_tracks)

\* line 126: a track marked skip takes nothing from the files after the first
\* nothing is refused: a skipped track takes the tables of every file
Refused_never(track, file_index) == FALSE

Refused(track, file_index) == track.skip /\ file_index > 1

\* the file ends in the body of this leaf
BodyCut(box) == ~has_children_read(box.typ) /\ box.kids # <<>>

\* lines 81, 127 and 178: the first read of a body that is not there fails;
\* the body of a table is read when the track exists and takes the table
ReadsBody(box) ==
    \/ box.typ \in HeaderTypes
    \/ /\ box.typ \in TableTypes \cup {"hdlr"}
       /\ HasTrack
       /\ (box.typ = "hdlr" \/ ~Refused(desc.moov_tracks[TlTrack], i))

\* line 65: a header was read, and what is read of the body is there
Reading ==
    /\ Present /\ NextBox.typ # "eof"
    /\ ~(BodyCut(NextBox) /\ ReadsBody(NextBox))

\* the loop goes on with the next box of the same invocation
Advance == stack' = <<[Top EXCEPT !.boxes = Tail(@)]>> \o Tail(stack)

Unchanged == UNCHANGED <<files, i, pre, first, insta360_max_read, out, log,
                         merged>>

\* lines 80-92
mvhd_timescale(D, box) ==
    IF D.moov_mvhd_timescale = 0 THEN header_timescale(box)
    ELSE D.moov_mvhd_timescale

ReadMvhd ==
    /\ Reading /\ NextBox.typ = "mvhd"
    /\ LET locked == mvhd_timescale(desc, NextBox)
           add    == CeilScale(header_duration(NextBox),
                               header_timescale(NextBox), locked)
       IN  \E panics \in Builds(desc.moov_mvhd_duration, add) :
             IF panics THEN pc' = "panic" /\ UNCHANGED <<desc, stack>>
             ELSE /\ desc' = [desc EXCEPT
                        !.moov_mvhd_timescale = locked,
                        !.mvhd_timescale_per_file[i] =
                            header_timescale(NextBox),
                        !.moov_mvhd_duration = Wrapping(@, add)]
                  /\ Advance /\ pc' = pc
    /\ Unchanged

\* lines 93-98
\* the duration is taken to be in the output timescale already
tkhd_add_unscaled(D, file_index, duration) ==
    CeilScale(duration, D.moov_mvhd_timescale, D.moov_mvhd_timescale)

tkhd_add(D, file_index, duration) ==
    CeilScale(duration, D.mvhd_timescale_per_file[file_index],
              D.moov_mvhd_timescale)

ReadTkhd ==
    /\ Reading /\ NextBox.typ = "tkhd"
    /\ IF HasTrack
       THEN LET add == tkhd_add(desc, i, header_duration(NextBox))
            IN  \E panics \in Builds(desc.moov_tracks[TlTrack].tkhd_duration,
                                     add) :
                  IF panics THEN pc' = "panic" /\ UNCHANGED <<desc, stack>>
                  ELSE /\ desc' = [desc EXCEPT
                             !.moov_tracks[TlTrack].tkhd_duration =
                                 Wrapping(@, add)]
                       /\ Advance /\ pc' = pc
       ELSE Advance /\ UNCHANGED <<desc, pc>>
    /\ Unchanged

\* lines 99-120
mdhd_timescale(track, box) ==
    IF track.mdhd_timescale = 0 THEN header_timescale(box)
    ELSE track.mdhd_timescale

\* lines 112-114: rows are added until the table has a row for track t
GrowRows(rows, t, width) ==
    IF Len(rows) >= t THEN rows
    ELSE rows \o [r \in 1 .. (t - Len(rows)) |-> [f \in 1 .. width |-> Zero]]

StoreTrackFileDuration(D, t, file_index, box) ==
    LET rows == GrowRows(D.track_file_durations, t, Len(D.file_creation_times))
    IN  IF file_index <= Len(rows[t])
        THEN [rows EXCEPT ![t][file_index] =
                             FDiv(header_duration(box), header_timescale(box))]
        ELSE rows

ReadMdhd ==
    /\ Reading /\ NextBox.typ = "mdhd"
    /\ IF HasTrack
       THEN LET locked == mdhd_timescale(desc.moov_tracks[TlTrack], NextBox)
                add    == CeilScale(header_duration(NextBox),
                                    header_timescale(NextBox), locked)
            IN  \E panics \in Builds(desc.moov_tracks[TlTrack].mdhd_duration,
                                     add) :
                  IF panics THEN pc' = "panic" /\ UNCHANGED <<desc, stack>>
                  ELSE /\ desc' = [desc EXCEPT
                             !.moov_tracks[TlTrack].mdhd_timescale = locked,
                             !.moov_tracks[TlTrack].mdhd_duration =
                                 Wrapping(@, add),
                             !.track_file_durations =
                                 StoreTrackFileDuration(desc, TlTrack, i, NextBox)]
                       /\ Advance /\ pc' = pc
       ELSE Advance /\ UNCHANGED <<desc, pc>>
    /\ Unchanged

\* lines 129-139: the segments that are not gaps are summed
RECURSIVE ElstSum(_)
ElstSum(entries) ==
    IF entries = <<>> THEN 0
    ELSE (IF Head(entries).media_time # -1 THEN Head(entries).segment_duration
          ELSE 0) + ElstSum(Tail(entries))

\* a table box of a track the descriptor has no slot for: unwrap() panics
TablePanics == ~HasTrack

ReadElst ==
    /\ Reading /\ NextBox.typ = "elst"
    /\ IF TablePanics
       THEN pc' = "panic" /\ UNCHANGED <<desc, stack>>
       ELSE /\ desc' =
                 IF Refused(desc.moov_tracks[TlTrack], i) THEN desc
                 ELSE [desc EXCEPT !.moov_tracks[TlTrack].elst_segment_duration =
                          @ + ElstSum(NextBox.entries)]
            /\ Advance /\ pc' = pc
    /\ Unchanged

\* a value read from the bytes that follow the body of a box
Beyond == -1

\* lines 142-145: sample_count values are read from the stream, which does
\* not end where the box does; the boxes modelled have bytes after them
stsz_read(box) ==
    [k \in 1 .. box.count |->
        IF k <= Len(box.entries) THEN box.entries[k] ELSE Beyond]

\* lines 140-147
ReadStsz ==
    /\ Reading /\ NextBox.typ = "stsz"
    /\ IF TablePanics
       THEN pc' = "panic" /\ UNCHANGED <<desc, stack>>
       ELSE /\ desc' =
                 IF Refused(desc.moov_tracks[TlTrack], i) THEN desc
                 ELSE [desc EXCEPT
                         !.moov_tracks[TlTrack].stsz_sample_size = NextBox.sample_size,
                         !.moov_tracks[TlTrack].stsz =
                             IF NextBox.sample_size = 0 THEN @ \o stsz_read(NextBox)
                             ELSE @,
                         !.moov_tracks[TlTrack].stsz_count = @ + NextBox.count]
            /\ Advance /\ pc' = pc
    /\ Unchanged

\* lines 148-151
ReadSdtp ==
    /\ Reading /\ NextBox.typ = "sdtp"
    /\ IF TablePanics
       THEN pc' = "panic" /\ UNCHANGED <<desc, stack>>
       ELSE /\ desc' =
                 IF Refused(desc.moov_tracks[TlTrack], i) THEN desc
                 ELSE [desc EXCEPT !.moov_tracks[TlTrack].sdtp = @ \o NextBox.entries]
            /\ Advance /\ pc' = pc
    /\ Unchanged

\* the offsets are moved behind the bodies copied so far, and no further
mdat_offset_unanchored(D) == D.mdat_offset

\* lines 154-155: what is added to a raw chunk offset of the current file
mdat_offset(D) ==
    D.mdat_offset - D.mdat_position[Len(D.mdat_position)].offset

\* the numbers are moved by what the track holds when the box is read
Renumbered_running(typ, entries, track, D) ==
    [e \in 1 .. Len(entries) |->
        CASE typ = "stss" -> entries[e] + track.stsz_count
          [] typ \in {"stco", "co64"} -> entries[e] + mdat_offset(D)
          [] typ = "stsc" -> <<entries[e][1] + Len(track.stco),
                               entries[e][2], entries[e][3]>>
          [] OTHER -> entries[e]]

\* lines 156-166: the entries of one box as they are recorded
Renumbered(typ, entries, track, D) ==
    [e \in 1 .. Len(entries) |->
        CASE typ = "stss" -> entries[e] + track.sample_offset
          [] typ \in {"stco", "co64"} -> entries[e] + mdat_offset(D)
          [] typ = "stsc" -> <<entries[e][1] + track.chunk_offset,
                               entries[e][2], entries[e][3]>>
          [] OTHER -> entries[e]]

\* lines 152-167
AppendCounted(track, typ, entries, D) ==
    LET new == Renumbered(typ, entries, track, D)
    IN  CASE typ = "stss" -> [track EXCEPT !.stss = @ \o new]
          [] typ \in {"stco", "co64"} -> [track EXCEPT !.stco = @ \o new]
          [] typ = "stts" -> [track EXCEPT !.stts = @ \o new]
          [] typ = "stsc" -> [track EXCEPT !.stsc = @ \o new]

ReadCounted ==
    /\ Reading /\ NextBox.typ \in CountedTypes
    /\ IF TablePanics
          \/ (~Refused(desc.moov_tracks[TlTrack], i) /\ desc.mdat_position = <<>>)
       THEN pc' = "panic" /\ UNCHANGED <<desc, stack>>
       ELSE /\ desc' =
                 IF Refused(desc.moov_tracks[TlTrack], i) THEN desc
                 ELSE [desc EXCEPT !.moov_tracks[TlTrack] =
                          AppendCounted(@, NextBox.typ, NextBox.entries, desc)]
            /\ Advance /\ pc' = pc
    /\ Unchanged

\* lines 170-174
ReadTmcd ==
    /\ Reading /\ NextBox.typ = "tmcd"
    /\ IF TablePanics
       THEN pc' = "panic" /\ UNCHANGED <<desc, stack>>
       ELSE /\ desc' = [desc EXCEPT !.moov_tracks[TlTrack].skip = TRUE]
            /\ Advance /\ pc' = pc
    /\ Unchanged

\* lines 175-190
ReadHdlr ==
    /\ Reading /\ NextBox.typ = "hdlr"
    /\ IF TablePanics
       THEN pc' = "panic" /\ UNCHANGED <<desc, stack>>
       ELSE /\ desc' = [desc EXCEPT !.moov_tracks[TlTrack].handler_type =
                          NextBox.entries[1]]
            /\ Advance /\ pc' = pc
    /\ Unchanged

\* line 191 alone: any other leaf is passed over
SkipLeaf ==
    /\ Reading
    /\ ~has_children_read(NextBox.typ)
    /\ NextBox.typ \notin
         HeaderTypes \cup TableTypes \cup {"tmcd", "hdlr", "size0", "eof"}
    /\ Advance /\ UNCHANGED <<desc, pc>> /\ Unchanged

\* line 66: a header with size 0 (or type 0) is passed over, eight bytes on
SkipZeroSized ==
    /\ Reading /\ NextBox.typ = "size0"
    /\ Advance /\ UNCHANGED <<desc, pc>> /\ Unchanged

\* line 65: the file ends where a box header is due: read_box fails, the loop
\* is left and the invocation returns Ok
HeaderReadFails ==
    /\ Present /\ NextBox.typ = "eof"
    /\ stack' = <<[Top EXCEPT !.boxes = <<>>]>> \o Tail(stack)
    /\ UNCHANGED <<desc, pc>> /\ Unchanged

\* lines 81, 127-164 and 178-180: a read in a leaf body fails and the error is
\* returned through every invocation to the caller of the merge
BodyReadFails ==
    /\ Present /\ BodyCut(NextBox) /\ ReadsBody(NextBox)
    /\ pc' = "error"
    /\ UNCHANGED <<desc, stack>> /\ Unchanged

\* lines 67-68 and 62-64: a container body is read by a new invocation, which
\* starts at the track of its caller and appends a 0 to mvhd_timescale_per_file
EnterContainer ==
    /\ Reading /\ has_children_read(NextBox.typ)
    /\ stack' = <<[typ |-> NextBox.typ, boxes |-> NextBox.kids,
                   tl_track |-> Top.tl_track]>>
                \o <<[Top EXCEPT !.boxes = Tail(@)]>> \o Tail(stack)
    /\ desc' = [desc EXCEPT !.mvhd_timescale_per_file = Append(@, 0)]
    /\ pc' = pc /\ Unchanged

\* lines 193-197 and 70-72: the body is consumed, the invocation returns, and
\* the caller counts a trak
Return ==
    /\ pc = "read_desc" /\ Len(stack) > 1 /\ Top.boxes = <<>>
    /\ LET caller == stack[2]
       IN  stack' = <<[caller EXCEPT !.tl_track =
                          IF Top.typ = "trak" THEN @ + 1 ELSE @]>>
                    \o Tail(Tail(stack))
    /\ UNCHANGED <<desc, pc>> /\ Unchanged

----------------------------------------------------------------------------
(* lib.rs: join_file_streams_with_metadata *)

NumFiles == Len(files)

\* lines 86-91
InitialDesc(fs) ==
    [Desc EXCEPT
       !.moov_tracks = [t \in 1 .. TRACK_CAPACITY |-> TrackDesc],
       !.file_creation_times = [f \in 1 .. Len(fs) |-> fs[f].creation_time],
       !.file_durations = [f \in 1 .. Len(fs) |-> Zero],
       !.track_file_durations =
           [t \in 1 .. TRACK_CAPACITY |-> [f \in 1 .. Len(fs) |-> Zero]]]

\* nothing written yet, and no merge finished yet
NoOutput  == [boxes |-> <<>>, stray |-> <<>>, hooked |-> FALSE]
NotMerged == [files |-> <<>>, desc |-> Desc, out |-> NoOutput]

\* a step of the merge, or a progress callback with its value
Event(ev, file, value) == [ev |-> ev, file |-> file, value |-> value]

\* the merge and the read-back of its output
ReadingBack == merged.files # <<>>

\* the bytes that the boxes of a truncated file count beyond its end
RECURSIVE Missing(_)
Missing(boxes) ==
    SumSeq([b \in 1 .. Len(boxes) |->
              IF boxes[b].typ = "eof" THEN boxes[b].count
              ELSE Missing(boxes[b].kids)])

\* the length of an input stream: its boxes, as far as they are there, and
\* the vendor trailer after them
FileSize(file) ==
    SumSizes(file.boxes, file.mdat_length) - Missing(file.boxes) + file.trailer

\* lines 100-110: the scan for the first top-level mdat records where its
\* body lies; without one nothing is recorded
Located(D, file) ==
    IF file.mdat_offset = None THEN D
    ELSE [D EXCEPT
            !.mdat_position = Append(@, [file |-> None,
                                         offset |-> file.mdat_offset,
                                         size |-> file.mdat_length]),
            !.mdat_final_position = file.mdat_offset]

\* lines 112-120: until a trailer was found, the last 40 bytes of each file
\* are read; the cap is the file size less the length the trailer states
Probed(cap, file) ==
    IF cap = None /\ file.trailer > 0 THEN FileSize(file) - file.trailer
    ELSE cap

\* line 113: seeking 40 bytes back from the end of a shorter file fails
ProbeFails(cap, file) == cap = None /\ FileSize(file) < 40

\* lines 101-110: the scan goes from a box that is not mdat to the place
\* org_pos + size - header_size; for a size field of 0 that is the place of
\* the box itself, which is then read again, and again
Revisits(file) ==
    \E k \in 1 .. Len(file.boxes) :
        /\ file.boxes[k].typ = "size0"
        /\ \A j \in 1 .. (k - 1) : file.boxes[j].typ # "mdat"

FindMdat ==
    /\ pc = "find_mdat"
    /\ IF Revisits(files[i])
       THEN pc' = "hang" /\ UNCHANGED <<desc, insta360_max_read>>
       ELSE /\ desc' = Located(desc, files[i])
            /\ IF ProbeFails(insta360_max_read, files[i])
               THEN pc' = "error" /\ UNCHANGED insta360_max_read
               ELSE /\ insta360_max_read' = Probed(insta360_max_read, files[i])
                    /\ pc' = "call_read_desc"
    /\ log' = Append(log, Event("locate", i, Zero))
    /\ UNCHANGED <<files, i, stack, pre, first, out, merged>>

\* line 125 and desc_reader.rs lines 62-64
CallReadDesc ==
    /\ pc = "call_read_desc"
    /\ stack' = <<[typ |-> "file", boxes |-> files[i].boxes, tl_track |-> 0]>>
    /\ desc' = [desc EXCEPT !.mvhd_timescale_per_file = Append(@, 0)]
    /\ pc' = "read_desc"
    /\ log' = Append(log, Event("build", i, Zero))
    /\ UNCHANGED <<files, i, pre, first, insta360_max_read, out, merged>>

\* lines 127-139: the duration of the file, from the first track
file_duration(D, file_index) ==
    IF /\ D.moov_mvhd_timescale > 0
       /\ D.mvhd_timescale_per_file[file_index] > 0
       /\ Len(D.moov_tracks) > 0
       /\ D.moov_tracks[1].mdhd_timescale > 0
       /\ D.moov_tracks[1].mdhd_duration > 0
    THEN FDiv(D.moov_tracks[1].mdhd_duration, D.moov_tracks[1].mdhd_timescale)
    ELSE D.file_durations[file_index]

\* lines 141-148
AfterFile(D, file_index) ==
    IF D.mdat_position = <<>> THEN D
    ELSE LET last == Len(D.mdat_position)
         IN  [D EXCEPT
                !.mdat_position[last].file = file_index,
                !.mdat_offset = @ + D.mdat_position[last].size,
                !.moov_tracks =
                    [t \in 1 .. Len(D.moov_tracks) |->
                        [D.moov_tracks[t] EXCEPT
                            !.sample_offset = D.moov_tracks[t].stsz_count,
                            !.chunk_offset = Len(D.moov_tracks[t].stco)]]]

\* line 150: ((i + 1) / num_files) * 0.1, i being 0-based there
structural_progress(file_index, num_files) ==
    Fin(file_index, 10 * num_files)

\* the outermost read_desc meets the end of the file and returns; lines 127-151
EndFile ==
    /\ pc = "read_desc" /\ Len(stack) = 1 /\ Top.boxes = <<>>
    /\ desc' = AfterFile([desc EXCEPT !.file_durations[i] = file_duration(desc, i)], i)
    /\ stack' = <<>>
    /\ first' = IF i = 1 THEN desc'.moov_tracks ELSE first
    /\ log' = log \o << Event("advance", i, Zero),
                        Event("progress", i, structural_progress(i, NumFiles)) >>
    /\ IF i < NumFiles
       THEN i' = i + 1 /\ pc' = "find_mdat"
       ELSE i' = i /\ pc' = IF ReadingBack THEN "reread" ELSE "gaps"
    /\ UNCHANGED <<files, pre, insta360_max_read, out, merged>>

\* line 154
ComputeGaps ==
    /\ pc = "gaps"
    /\ pre' = desc
    /\ desc' = compute_gaps_and_edit_lists(desc)
    /\ pc' = "rewrite"
    /\ log' = Append(log, Event("timeline", 0, Zero))
    /\ UNCHANGED <<files, i, stack, first, insta360_max_read, out, merged>>

----------------------------------------------------------------------------
(* writer.rs: rewrite_from_desc.  A box of the output is the box it was     *)
(* written from together with the place of its first byte (at), its size    *)
(* field (size) and, for a table, the version byte written.  Sizes stay far *)
(* below 2^32 here, so that a size patched in as u32 is the size itself.    *)

\* lib.rs: has_children(typ, false)
has_children_write(typ) ==
    typ \in {"moov", "trak", "edts", "mdia", "minf", "stbl"}

\* stsc is not among them: it is copied from the first file
WrittenTypes_but_stsc ==
    {"elst", "stts", "stsz", "stss", "stco", "co64", "sdtp"}

WrittenTypes ==
    {"elst", "stts", "stsz", "stss", "stco", "co64", "sdtp", "stsc"}

OutBox(typ, kids, box, at, size, version, count, entries) ==
    [typ |-> typ, kids |-> kids, timescale |-> box.timescale,
     duration |-> box.duration, sample_size |-> box.sample_size,
     count |-> count, entries |-> entries,
     at |-> at, size |-> size, version |-> version, words |-> box.words]

\* lines 206-213: the box is copied as it is
Copied(box, at, size) ==
    OutBox(box.typ, box.kids, box, at, size, box.version, box.count,
           box.entries)

\* the body of the first file is copied and no other
Regions_first(D, fs) == SubSeq(D.mdat_position, 1, 1)

\* lines 48-58: the regions that are copied, those of the files that exist
Regions(D, fs) ==
    SelectSeq(D.mdat_position, LAMBDA m : m.file # None /\ m.file <= Len(fs))

RegionBytes(regions) ==
    SumSeq([r \in 1 .. Len(regions) |-> regions[r].size])

\* lines 36-61: one mdat with a 64-bit size; its body starts 16 bytes in
WriteMdat(box, D, fs, at) ==
    LET regions == Regions(D, fs)
        new_size == 16 + RegionBytes(regions)
    IN  [box    |-> OutBox("mdat", <<>>, box, at, new_size, 0,
                           Len(regions), regions),
         desc   |-> [D EXCEPT !.mdat_final_position = at + 16],
         size   |-> new_size,
         status |-> "ok"]

\* lines 75-86: the duration that is patched in; tkhd and mdhd only when
\* the descriptor has the track
PatchedDuration(box, D, tl_track) ==
    CASE box.typ = "mvhd" -> D.moov_mvhd_duration
      [] box.typ = "tkhd" /\ tl_track <= Len(D.moov_tracks) ->
            D.moov_tracks[tl_track].tkhd_duration
      [] box.typ = "mdhd" /\ tl_track <= Len(D.moov_tracks) ->
            D.moov_tracks[tl_track].mdhd_duration
      [] OTHER -> None

\* lines 76-77, 81-82 and 85-86: the bytes after version and flags at which
\* the duration is patched in
patch_at(typ, v) ==
    CASE typ = "mvhd" -> IF v = 1 THEN 8 + 8 + 4 ELSE 4 + 4 + 4
      [] typ = "tkhd" -> IF v = 1 THEN 8 + 8 + 8 + 4 ELSE 4 + 4 + 4 + 4
      [] typ = "mdhd" -> IF v = 1 THEN 8 + 8 + 4 ELSE 4 + 4 + 4

\* patch_bytes with to_be_bytes of a u64, two words of which the first is 0
\* for the numbers of the model, or of the number as u32
PatchedWords(words, v, at, value) ==
    IF v = 1
    THEN [words EXCEPT ![at \div 4 + 1] = 0, ![at \div 4 + 2] = value]
    ELSE [words EXCEPT ![at \div 4 + 1] = value]

\* lines 63-88: the header is copied and its duration patched
WriteHeader(box, D, tl_track, at, size) ==
    [box    |-> LET value  == PatchedDuration(box, D, tl_track)
                    copied == Copied(box, at, size)
                    words  == IF value = None \/ box.kids # <<>> THEN box.words
                              ELSE PatchedWords(box.words, box.version,
                                                patch_at(box.typ, box.version),
                                                value)
                IN  [copied EXCEPT
                       !.words = words,
                       !.duration = IF box.kids # <<>> THEN @
                                    ELSE header_duration(
                                           [copied EXCEPT !.words = words])],
     desc   |-> D,
     size   |-> size,
     status |-> IF box.kids # <<>> THEN "error" ELSE "ok"]

\* the duration the edit lists read add up to, whatever the media lasts
elst_duration_unchecked(track) == track.elst_segment_duration

\* lines 137-140
elst_duration(track) ==
    IF track.elst_segment_duration = 0
       \/ track.mdhd_duration > track.elst_segment_duration
    THEN track.mdhd_duration
    ELSE track.elst_segment_duration

\* lines 111-148: the entries of the track, or the single fallback entry
WrittenElst(track) ==
    IF track.elst_entries # <<>> THEN track.elst_entries
    ELSE << [segment_duration |-> elst_duration(track), media_time |-> 0,
             media_rate |-> 65536] >>

\* the runs are written as they were read
new_stts_as_read(stts, pushed) == stts

\* lines 155-163: a run whose delta is that of the run pushed last is added
\* to it
RECURSIVE new_stts(_, _)
new_stts(stts, pushed) ==
    IF stts = <<>> THEN pushed
    ELSE LET x == Head(stts)
             last == Len(pushed)
         IN  IF pushed # <<>> /\ pushed[last][2] = x[2]
             THEN new_stts(Tail(stts),
                           [pushed EXCEPT ![last] = <<@[1] + x[1], x[2]>>])
             ELSE new_stts(Tail(stts), Append(pushed, x))

\* lines 183-191: what is written first into a chunk-offset table
WrittenOffsets(track, D) ==
    [c \in 1 .. Len(track.stco) |-> track.stco[c] + D.mdat_final_position]

\* the two fields ahead of the sizes of stsz are counted as one
table_size_short(typ, n) ==
    CASE typ = "elst" -> 12 + 4 + 20 * n
      [] typ = "sdtp" -> 12 + n
      [] typ = "stsc" -> 12 + 4 + 12 * n
      [] typ \in {"stts", "stco", "co64"} -> 12 + 4 + 8 * n
      [] OTHER -> 12 + 4 + 4 * n

\* lines 96, 115, 124, 135, 145, 165-202: new_size, which line 205 patches
\* into the size field, for a table of n entries
table_size(typ, n) ==
    CASE typ = "elst" -> 12 + 4 + 20 * n
      [] typ = "stts" -> 12 + 4 + 8 * n
      [] typ = "stsz" -> 12 + 8 + 4 * n
      [] typ = "stss" -> 12 + 4 + 4 * n
      [] typ \in {"stco", "co64"} -> 12 + 4 + 8 * n
      [] typ = "sdtp" -> 12 + n
      [] typ = "stsc" -> 12 + 4 + 12 * n

\* lines 90-205: the table is written anew from the descriptor
WriteTable(box, D, tl_track, at) ==
    IF tl_track > Len(D.moov_tracks)
    THEN [box |-> Copied(box, at, 0), desc |-> D, size |-> 12,
          status |-> "panic"]
    ELSE
    LET track == D.moov_tracks[tl_track]
        typ   == box.typ
        entries ==
          CASE typ = "elst" -> WrittenElst(track)
            [] typ = "stts" -> new_stts(track.stts, <<>>)
            [] typ = "stsz" -> track.stsz
            [] typ = "stss" -> track.stss
            [] typ \in {"stco", "co64"} -> WrittenOffsets(track, D)
            [] typ = "sdtp" -> track.sdtp
            [] typ = "stsc" -> track.stsc
        n == Len(entries)
        new_size == table_size(typ, n)
        written ==
          [OutBox(IF typ = "stco" THEN "co64" ELSE typ, <<>>, box, at, new_size,
                  IF typ = "elst" THEN 1 ELSE 0,
                  IF typ = "stsz" THEN track.stsz_count ELSE n, entries)
             EXCEPT !.sample_size =
                      IF typ = "stsz" THEN track.stsz_sample_size ELSE @]
    IN  [box    |-> written,
         desc   |-> IF typ \in {"stco", "co64"}
                    THEN [D EXCEPT !.moov_tracks[tl_track].co64_final_position =
                                      at + 16]
                    ELSE D,
         size   |-> new_size,
         status |-> "ok"]

\* line 215: the loop stops once it has read max_read bytes (None: u64::MAX)
ReadEnough(read, max_read) == max_read # None /\ read >= max_read

\* the boxes are those the reader of the first file has ahead; a box is
\* written at the place the output has reached (at)
RECURSIVE rewrite_from_desc(_, _, _, _, _, _)
RECURSIVE rewrite_loop(_, _, _, _, _)
RECURSIVE WriteBox(_, _, _, _, _, _)

\* lines 10-13 and 219
rewrite_from_desc(boxes, fs, D, track, at, max_read) ==
    rewrite_loop(boxes, fs,
                 [boxes |-> <<>>, desc |-> D, total_new_size |-> 0,
                  total_read_size |-> 0, tl_track |-> track, at |-> at,
                  status |-> "ok"],
                 max_read, fs[1].mdat_length)

\* lines 14-18 and 214-218
rewrite_loop(boxes, fs, w, max_read, mdat_length) ==
    IF \/ boxes = <<>> \/ Head(boxes).typ \in {"size0", "eof"}
       \/ w.status # "ok"
    THEN w
    ELSE LET box  == Head(boxes)
             size == InSize(box, mdat_length)
             r    == WriteBox(box, fs, w.desc, w.tl_track, w.at, size)
             then == [boxes |-> Append(w.boxes, r.box),
                      desc |-> r.desc,
                      total_new_size |-> w.total_new_size + r.size,
                      total_read_size |-> w.total_read_size + size,
                      tl_track |-> IF box.typ = "trak" THEN w.tl_track + 1
                                   ELSE w.tl_track,
                      at |-> w.at + r.size,
                      status |-> r.status]
         IN  IF ReadEnough(then.total_read_size, max_read) THEN then
             ELSE rewrite_loop(Tail(boxes), fs, then, max_read, mdat_length)

\* lines 19-213, by the type of the box; tl_track is an index into
\* desc.moov_tracks (1-based)
WriteBox(box, fs, D, tl_track, at, size) ==
    CASE has_children_write(box.typ) ->
           LET inner == rewrite_from_desc(box.kids, fs, D, tl_track, at + 8,
                                          size - 8)
               new_size == inner.total_new_size + 8
           IN  [box    |-> OutBox(box.typ, inner.boxes, box, at, new_size, 0,
                                  box.count, box.entries),
                desc   |-> inner.desc,
                size   |-> new_size,
                status |-> inner.status]
      [] box.typ = "mdat" -> WriteMdat(box, D, fs, at)
      [] box.typ \in HeaderTypes -> WriteHeader(box, D, tl_track, at, size)
      [] box.typ \in WrittenTypes -> WriteTable(box, D, tl_track, at)
      [] OTHER ->
           [box |-> Copied(box, at, size), desc |-> D, size |-> size,
            status |-> "ok"]

----------------------------------------------------------------------------
(* lib.rs: join_file_streams_with_metadata, the write phase *)

\* x.min(y): the other operand when one is NaN
FMin(x, y) ==
    CASE x.k = "nan" -> y
      [] y.k = "nan" -> x
      [] x.k = "-inf" \/ y.k = "inf" -> x
      [] y.k = "-inf" \/ x.k = "inf" -> y
      [] OTHER -> IF x.n * y.d <= y.n * x.d THEN x ELSE y

\* line 93 and 98: the lengths of the input streams, added up
total_size(fs) == SumSeq([f \in 1 .. Len(fs) |-> FileSize(fs[f])])

\* the value is not held below 1
write_progress_unclamped(total, size) ==
    LET x == FDiv(total, size)
    IN  IF x.k = "fin" THEN Fin(9 * x.n + x.d, 10 * x.d) ELSE x

\* line 159: (0.1 + ((total / total_size) * 0.9)).min(0.9999), the rounding
\* of which is left out
write_progress(total, size) ==
    LET x == FDiv(total, size)
    IN  FMin(IF x.k = "fin" THEN Fin(9 * x.n + x.d, 10 * x.d) ELSE x,
             Fin(9999, 10000))

\* lines 157-163: the stream calls back with the bytes written so far, and
\* not more often than every 100 ms; here at most once in a phase
Callbacks(totals) ==
    {<<>>} \cup { << Event("progress", 0, write_progress(t, total_size(files))) >> :
                    t \in totals }

\* lines 166-167
Rewrite ==
    /\ pc = "rewrite"
    /\ LET w == rewrite_from_desc(files[1].boxes, files, desc, 1, 0,
                                  insta360_max_read)
       IN  /\ desc' = w.desc
           /\ out' = [out EXCEPT !.boxes = w.boxes]
           /\ pc' = IF w.status = "ok" THEN "patch" ELSE w.status
           /\ \E called \in Callbacks({0, w.total_new_size}) :
                log' = Append(log, Event("rewrite", 0, Zero)) \o called
    /\ UNCHANGED <<files, i, stack, pre, first, insta360_max_read, merged>>

\* nothing is written after the rewriter
patch_writes_skipped(tracks, D) == <<>>

\* lines 170-175: the 8-byte values written, in the order of the tracks
RECURSIVE patch_writes(_, _)
patch_writes(tracks, D) ==
    IF tracks = <<>> THEN <<>>
    ELSE [c \in 1 .. Len(Head(tracks).stco) |->
            [at    |-> Head(tracks).co64_final_position + 8 * (c - 1),
             value |-> Head(tracks).stco[c] + D.mdat_final_position]]
         \o patch_writes(Tail(tracks), D)

\* the value that the last write at this place left, if there is one
LastWrite(writes, at, was) ==
    LET ks == { k \in 1 .. Len(writes) : writes[k].at = at }
    IN  IF ks = {} THEN was
        ELSE writes[CHOOSE k \in ks : \A j \in ks : j <= k].value

\* the output after the writes: the entries of the chunk-offset tables that
\* lie where a write went
RECURSIVE Patched(_, _)
Patched(boxes, writes) ==
    [b \in 1 .. Len(boxes) |->
        IF boxes[b].typ = "co64"
        THEN [boxes[b] EXCEPT !.entries =
                [c \in 1 .. Len(@) |->
                    LastWrite(writes, boxes[b].at + 16 + 8 * (c - 1), @[c])]]
        ELSE IF has_children_write(boxes[b].typ)
        THEN [boxes[b] EXCEPT !.kids = Patched(@, writes)]
        ELSE boxes[b]]

\* the places of the entries of the chunk-offset tables of the output
RECURSIVE EntryPlaces(_)
EntryPlaces(boxes) ==
    UNION { IF boxes[b].typ = "co64"
            THEN { boxes[b].at + 16 + 8 * (c - 1) :
                     c \in 1 .. Len(boxes[b].entries) }
            ELSE IF has_children_write(boxes[b].typ)
            THEN EntryPlaces(boxes[b].kids)
            ELSE {} : b \in 1 .. Len(boxes) }

\* the bytes of the output: its top-level boxes
OutLength(boxes) == SumSeq([b \in 1 .. Len(boxes) |-> boxes[b].size])

\* lines 169-175
PostPatch ==
    /\ pc = "patch"
    /\ LET writes == patch_writes(desc.moov_tracks, desc)
       IN  /\ out' = [out EXCEPT
                 !.boxes = Patched(@, writes),
                 !.stray = SelectSeq(writes,
                             LAMBDA w : w.at \notin EntryPlaces(out.boxes))]
           /\ \E called \in Callbacks({OutLength(out.boxes) + 8 * Len(writes)}) :
                log' = Append(log, Event("patch", 0, Zero)) \o called
    /\ pc' = IF insta360_max_read # None THEN "hook" ELSE "final"
    /\ UNCHANGED <<files, desc, i, stack, pre, first, insta360_max_read, merged>>

\* lines 177-182: the trailers are merged, or the merge fails there
Insta360Hook ==
    /\ pc = "hook"
    /\ log' = Append(log, Event("hook", 0, Zero))
    /\ \E merges \in BOOLEAN :
         /\ out' = [out EXCEPT !.hooked = merges]
         /\ pc' = IF merges THEN "final" ELSE "error"
    /\ UNCHANGED <<files, desc, i, stack, pre, first, insta360_max_read, merged>>

\* lines 184-186
Finish ==
    /\ pc = "final"
    /\ log' = Append(log, Event("progress", 0, Fin(1, 1)))
    /\ pc' = "done"
    /\ UNCHANGED <<files, desc, i, stack, pre, first, insta360_max_read, out,
                   merged>>

\* a box of the output as a box of an input
RECURSIVE AsInput(_)
AsInput(boxes) ==
    [b \in 1 .. Len(boxes) |->
        [Box(boxes[b].typ, AsInput(boxes[b].kids), boxes[b].timescale,
             boxes[b].duration, boxes[b].sample_size, boxes[b].count,
             boxes[b].entries)
           EXCEPT !.version = boxes[b].version, !.words = boxes[b].words]]

\* the output as an input file: its mdat body and its boxes
OutputFile(o) ==
    LET ms == { b \in 1 .. Len(o.boxes) : o.boxes[b].typ = "mdat" }
        m  == o.boxes[CHOOSE b \in ms : \A c \in ms : b <= c]
    IN  [creation_time |-> None,
         mdat_offset |-> IF ms = {} THEN None ELSE m.at + 16,
         mdat_length |-> IF ms = {} THEN 0 ELSE m.size - 16,
         boxes |-> AsInput(o.boxes),
         trailer |-> 0]

\* lines 78-82: the output of a finished merge is merged on its own
ReadBack ==
    /\ pc = "done" /\ ~ReadingBack
    /\ merged' = [files |-> files, desc |-> desc, out |-> out]
    /\ files' = << OutputFile(out) >>
    /\ desc' = InitialDesc(files')
    /\ pc' = "find_mdat"
    /\ i' = 1
    /\ stack' = <<>>
    /\ first' = <<>>
    /\ insta360_max_read' = None
    /\ log' = <<>>
    /\ UNCHANGED <<pre, out>>

----------------------------------------------------------------------------
(* The inputs of a merge *)

MaxFiles     == 2   \* input files of one merge
MaxTimescale == 2   \* largest header timescale
MaxDuration  == 2   \* largest header duration
MaxTraks     == 2   \* trak boxes of a file with sample tables
GapTime      == 3   \* seconds between two creation times

File(creation_time, off, length, boxes) ==
    [creation_time |-> creation_time, mdat_offset |-> off,
     mdat_length |-> length, boxes |-> boxes, trailer |-> 0]

\* ftyp of the f-th file: the later the file, the more compatible brands
Ftyp(f) == Box("ftyp", <<>>, 0, 0, 0, 0, [k \in 1 .. 2 * (f - 1) |-> "isom"])

\* the place of the mdat body in a file of these top-level boxes: after the
\* boxes before mdat and its 8-byte header
MdatOffset(boxes) ==
    LET k == CHOOSE k \in 1 .. Len(boxes) : boxes[k].typ = "mdat"
    IN  SumSizes(SubSeq(boxes, 1, k - 1), 0) + 8

\* the length of the mdat body of the f-th file, and the offsets of the two
\* chunks of track t in a body that starts at off
MdatLength(f) == 4 + 4 * f
ChunkOffsets(off, t) == <<off + t - 1, off + t + 1>>

\* a file of these boxes, mdat among them
Laid(creation_time, f, boxes) ==
    File(creation_time, MdatOffset(boxes), MdatLength(f), boxes)

\* a timescale and a duration as a header carries them
Headers ==
    {<<0, 0>>} \cup ({1, MaxTimescale} \X {1, MaxDuration})

\* ftyp, moov (mvhd and one trak with its two headers), mdat
HeaderFile(f, creation_time, mvhd, mdhd) ==
    Laid(creation_time, f,
         << Ftyp(f),
            Container("moov",
              << Mvhd(mvhd[1], mvhd[2]),
                 Container("trak",
                   << Tkhd(mvhd[2]),
                      Container("mdia", << Mdhd(mdhd[1], mdhd[2]) >>) >>) >>),
            Leaf("mdat") >>)

\* ftyp, moov and mdat, the three headers of the file in one version
VersionFile(f, creation_time, v) ==
    Laid(creation_time, f,
         << Ftyp(f),
            Container("moov",
              << Header("mvhd", v, 1, f),
                 Container("trak",
                   << Header("tkhd", v, 0, f),
                      Container("mdia",
                        << Header("mdhd", v, 2, 2 * f) >>) >>) >>),
            Leaf("mdat") >>)

VersionInput(ct, v) == [f \in 1 .. 2 |-> VersionFile(f, ct[f], v[f])]

\* a file with one trak more than the descriptor has tracks; each trak has
\* its two headers, and the last one an stts table as well or not
ManyTraks(f, tables) ==
    Laid(None, f,
         << Ftyp(f),
            Container("moov",
              << Mvhd(2, 2) >>
              \o [t \in 1 .. (TRACK_CAPACITY + 1) |->
                    Container("trak",
                      << Tkhd(2),
                         Container("mdia",
                           << Mdhd(2, 2) >>
                           \o (IF tables /\ t > TRACK_CAPACITY
                               THEN << Table("stts", << <<2, 10>> >>) >>
                               ELSE <<>>)) >>)]),
            Leaf("mdat") >>)

ManyInput(tables) == [f \in 1 .. 2 |-> ManyTraks(f, tables)]

\* no creation time at all, or the files created GapTime seconds apart
Unstamped(n) == [f \in 1 .. n |-> None]
Stamped(n)   == [f \in 1 .. n |-> (f - 1) * GapTime]

\* the timescale and the duration of a header, one pair for the first file
\* and one for the files after it
HeaderSeqs == Headers \X Headers

Nth(pair, f) == IF f = 1 THEN pair[1] ELSE pair[2]

HeaderInput(n, ct, mv, md) ==
    [f \in 1 .. n |-> HeaderFile(f, ct[f], Nth(mv, f), Nth(md, f))]

Reverse(s) == [k \in 1 .. Len(s) |-> s[Len(s) + 1 - k]]

\* the sample tables of track t in file f, the mdat body of which starts at
\* off; two samples, in one run or in two runs the deltas of which are the
\* same in the first file; the sizes are an array or a constant; the tables
\* come in this order or, turned, in the opposite one
SampleTables(f, t, sized, turned, off) ==
    LET tables ==
          << Table("stts", IF t = 1 THEN << <<2, 10>> >>
                           ELSE << <<1, 20>>, <<1, 10 * (f + 1)>> >>),
             Table("stss", << 1 >>),
             Table("sdtp", << f, t >>),
             Table("stsc", << <<1, 1, 1>> >>),
             (IF sized THEN Stsz(0, 2, << 100 * f + t, 200 * f + t >>)
              ELSE Stsz(4, 2, <<>>)),
             Table(IF t = 1 THEN "stco" ELSE "co64", ChunkOffsets(off, t)) >>
    IN  IF turned THEN Reverse(tables) ELSE tables

\* an edit list as it is read: version-0 entries, the first one empty or not
ElstRead(lead) ==
    (IF lead THEN << [segment_duration |-> 1, media_time |-> -1] >> ELSE <<>>)
    \o << [segment_duration |-> 3, media_time |-> 0] >>

\* a trak as cameras write it; a timecode track has a tmcd sample entry
Trak(f, t, timecode, sized, lead, turned, off) ==
    Container("trak",
      << Tkhd(4),
         Container("edts", << Table("elst", ElstRead(lead)) >>),
         Container("mdia",
           << Mdhd(2 * t, 2 * t),
              Hdlr(IF timecode THEN "tmcd" ELSE "vide"),
              Container("minf",
                << Leaf(IF timecode THEN "gmhd" ELSE "vmhd"),
                   Container("stbl",
                     << Container("stsd",
                          << ZeroSized,
                             Leaf(IF timecode THEN "tmcd" ELSE "avc1") >>) >>
                     \o SampleTables(f, t, sized, turned, off)) >>) >>) >>)

\* ftyp, mdat, moov, or with moov ahead of mdat; turned: the sample tables in
\* the opposite order
TableBoxes(f, timecode, sized, lead, moov_first, turned, off) ==
    LET moov == Container("moov",
                  << Mvhd(2, 4) >>
                  \o [t \in 1 .. MaxTraks |->
                        Trak(f, t, timecode[t], sized, lead, turned, off)])
    IN  IF moov_first THEN << Ftyp(f), moov, Leaf("mdat") >>
        ELSE << Ftyp(f), Leaf("mdat"), moov >>

\* the chunk offsets of a file point into its own mdat body
TableFile(f, creation_time, timecode, sized, lead, moov_first, turned) ==
    LET off == MdatOffset(TableBoxes(f, timecode, sized, lead, moov_first,
                                     turned, 0))
    IN  Laid(creation_time, f,
             TableBoxes(f, timecode, sized, lead, moov_first, turned, off))

\* no track is a timecode track, or the first one, or the last one
Timecodes ==
    { [t \in 1 .. MaxTraks |-> t = k] : k \in {0, 1, MaxTraks} }

Timecodes_none == [t \in 1 .. MaxTraks |-> FALSE]

\* tc: the timecode tracks of the first file, and those of the files after it
TableInput(ct, tc, sized, lead, moov_first, turned) ==
    [f \in 1 .. MaxFiles |->
        TableFile(f, ct[f], Nth(tc, f), sized, lead, moov_first, turned)]

\* files of which some have the sizes of the samples as an array and the
\* others as one constant
MixedInput(sized) ==
    [f \in 1 .. MaxFiles |->
        TableFile(f, None, Nth(<< Timecodes_none, Timecodes_none >>, f),
                  Nth(sized, f), FALSE, FALSE, FALSE)]

\* a vendor trailer of this many bytes after the last box of file f
TrailerLength(f) == 40 + 8 * f
Trailed(file, f, has) ==
    [file EXCEPT !.trailer = IF has THEN TrailerLength(f) ELSE 0]

\* a file of 16 bytes: ftyp and nothing else
Stub == File(None, None, 0, << Ftyp(1) >>)

\* two files with sample tables, each with a vendor trailer or without; the
\* second one may have headers only; or one of the two and the short file
VendorInput(has, stub, moov_first, headers) ==
    LET fs == [f \in 1 .. 2 |->
                 Trailed(IF headers /\ f = 2
                         THEN HeaderFile(f, None, <<2, 2>>, <<2, 2>>)
                         ELSE TableFile(f, None, [t \in 1 .. MaxTraks |-> FALSE],
                                        TRUE, FALSE, moov_first, FALSE),
                         f, has[f])]
    IN  IF stub = 0 THEN fs ELSE [fs EXCEPT ![stub] = Stub]

\* the first file has a trak of headers and no sample table, the second one
\* traks with sample tables
LateTables(moov_first) ==
    << HeaderFile(1, None, <<2, 2>>, <<2, 2>>),
       TableFile(2, None, Timecodes_none, TRUE, FALSE, moov_first, FALSE) >>

Start(fs) ==
    /\ files = fs
    /\ desc = InitialDesc(fs)
    /\ pc = "find_mdat"
    /\ i = 1
    /\ stack = <<>>
    /\ pre = Desc
    /\ first = <<>>
    /\ insta360_max_read = None
    /\ out = NoOutput
    /\ log = <<>>
    /\ merged = NotMerged

\* the file with an edit list of these entries in each trak, after tkhd
RECURSIVE WithEdts(_, _)
WithEdts(boxes, entries) ==
    IF boxes = <<>> THEN <<>>
    ELSE (IF Head(boxes).typ = "tkhd"
          THEN << Head(boxes), Container("edts", << Table("elst", entries) >>) >>
          ELSE << [Head(boxes) EXCEPT !.kids = WithEdts(@, entries)] >>)
         \o WithEdts(Tail(boxes), entries)

Edited(file, entries) ==
    [file EXCEPT !.boxes = WithEdts(@, entries),
                 !.mdat_offset = MdatOffset(WithEdts(file.boxes, entries))]

\* two contiguous files: a movie of 2000 at 1000, a track of 96000 at 48000
\* that plays from its start
ContiguousFiles ==
    LET fs == HeaderInput(2, Unstamped(2), <<<<1000, 2000>>, <<1000, 2000>>>>,
                          <<<<48000, 96000>>, <<48000, 96000>>>>)
    IN  [f \in 1 .. 2 |->
           Edited(fs[f], << [segment_duration |-> 2000, media_time |-> 0] >>)]

\* a file of ftyp, mdat and moov that is whole, or ends in moov after mvhd,
\* or in trak after tkhd, or in the 24-byte body of mdhd
Cuts == {"whole", "moov", "trak", "mdhd"}

CutMoov(cut) ==
    LET mdhd == Mdhd(2, 2)
        mdia == Container("mdia",
                  << IF cut = "mdhd" THEN [mdhd EXCEPT !.kids = << Eof(24) >>]
                     ELSE mdhd >>)
        trak == Container("trak",
                  << Tkhd(2) >>
                  \o (IF cut = "trak" THEN << Eof(InSize(mdia, 0)) >>
                      ELSE << mdia >>))
    IN  Container("moov",
          << Mvhd(2, 2) >>
          \o (IF cut = "moov" THEN << Eof(InSize(trak, 0)) >> ELSE << trak >>))

CutFile(f, cut) ==
    Laid(None, f, << Ftyp(f), Leaf("mdat"), CutMoov(cut) >>)

\* two such files
CutInput(cuts) == [f \in 1 .. 2 |-> CutFile(f, cuts[f])]

\* a file of ftyp, moov and mdat, and a box header with the size field 0
\* ("to the end of the file") ahead of mdat or behind it
Sentinels == {"ahead", "behind"}

SentinelFile(f, at) ==
    LET moov == Container("moov",
                  << Mvhd(2, 2),
                     Container("trak",
                       << Tkhd(2), Container("mdia", << Mdhd(2, 2) >>) >>) >>)
    IN  Laid(None, f,
             IF at = "ahead" THEN << Ftyp(f), moov, ZeroSized, Leaf("mdat") >>
             ELSE << Ftyp(f), moov, Leaf("mdat"), ZeroSized >>)

SentinelInput(at) == [f \in 1 .. 2 |-> SentinelFile(f, at[f])]

\* three files of one second each, created GapTime seconds apart
ThreeFiles ==
    HeaderInput(3, Stamped(3), <<<<1, 1>>, <<1, 1>>>>, <<<<1, 1>>, <<1, 1>>>>)

\* the two contiguous files, one file or MaxFiles files that differ in their
\* headers, MaxFiles files with sample tables some of whose tracks are
\* timecode tracks, or two files with vendor trailers or too short to have one
Init ==
    \/ Start(ContiguousFiles)
    \/ Start(ThreeFiles)
    \/ \E cuts \in [1 .. 2 -> Cuts] : Start(CutInput(cuts))
    \/ \E at \in [1 .. 2 -> Sentinels] : Start(SentinelInput(at))
    \/ \E sized \in {<< TRUE, FALSE >>, << FALSE, TRUE >>} :
         Start(MixedInput(sized))
    \/ \E ct \in {Unstamped(2), Stamped(2)}, v \in [1 .. 2 -> {0, 1}] :
         Start(VersionInput(ct, v))
    \/ \E tables \in BOOLEAN : Start(ManyInput(tables))
    \/ \E moov_first \in BOOLEAN : Start(LateTables(moov_first))
    \/ \E n \in {1, MaxFiles} :
         \E ct \in {Unstamped(n), Stamped(n)}, mv \in HeaderSeqs,
            md \in HeaderSeqs :
              Start(HeaderInput(n, ct, mv, md))
    \/ \E ct \in {Unstamped(MaxFiles), Stamped(MaxFiles)},
          tc \in Timecodes \X Timecodes,
          sized \in BOOLEAN, lead \in BOOLEAN, moov_first \in BOOLEAN,
          turned \in BOOLEAN :
            Start(TableInput(ct, tc, sized, lead, moov_first, turned))
    \/ \E has \in [1 .. 2 -> BOOLEAN], stub \in 0 .. 2,
          moov_first \in BOOLEAN, headers \in BOOLEAN :
            Start(VendorInput(has, stub, moov_first, headers))

Next ==
    \/ FindMdat \/ CallReadDesc
    \/ EnterContainer \/ Return
    \/ ReadMvhd \/ ReadTkhd \/ ReadMdhd
    \/ ReadElst \/ ReadStsz \/ ReadSdtp \/ ReadCounted
    \/ ReadTmcd \/ ReadHdlr \/ SkipLeaf \/ SkipZeroSized
    \/ HeaderReadFails \/ BodyReadFails
    \/ EndFile \/ ComputeGaps
    \/ Rewrite \/ PostPatch \/ Insta360Hook \/ Finish \/ ReadBack

Spec == Init /\ [][Next]_vars

----------------------------------------------------------------------------
(* The timeline engine on its own: compute_gaps_and_edit_lists applied to a *)
(* Desc built directly, as the tests of desc_reader.rs build it.            *)

MaxGapFiles    == 3      \* files of such a Desc
MaxGapTracks   == 2      \* tracks of such a Desc
MaxHalfSeconds == 2      \* the longest file duration, in half seconds
PriorTkhd      == 12345  \* tkhd_duration before the call
PriorMovie     == 4321   \* moov_mvhd_duration before the call

MovieTimescales == {0, 1, 3, 4}
MediaTimescales == {0, 1, 2}
Seconds         == {Zero, Fin(1, 2), Fin(MaxHalfSeconds, 2)}
CreationTimes   == {None, 0, GapTime - 1, GapTime}

GapTrackDesc(mdhd_ts, skip) ==
    [TrackDesc EXCEPT !.mdhd_timescale = mdhd_ts, !.skip = skip,
                      !.tkhd_duration = PriorTkhd]

GapDesc(times, durations, rows, movie_ts, tracks) ==
    [Desc EXCEPT !.moov_mvhd_timescale = movie_ts,
                 !.moov_mvhd_duration = PriorMovie,
                 !.file_creation_times = times,
                 !.file_durations = durations,
                 !.track_file_durations = rows,
                 !.moov_tracks = tracks]

GapTrackDescs ==
    { GapTrackDesc(ts, FALSE) : ts \in MediaTimescales }
        \cup {GapTrackDesc(1, TRUE)}

\* two tracks with media timescales that differ
TrackPairs ==
    { <<GapTrackDesc(ts[1], s1), GapTrackDesc(ts[2], s2)>> :
        ts \in {<<1, 2>>, <<2, 1>>, <<0, 1>>}, s1 \in BOOLEAN, s2 \in BOOLEAN }

StartTimes == { ct \in [1 .. 2 -> CreationTimes] : ct[1] \in {None, 0} }

StartGaps(D) ==
    /\ files = <<>>
    /\ desc = D
    /\ pc = "gaps"
    /\ i = 0
    /\ stack = <<>>
    /\ pre = Desc
    /\ first = <<>>
    /\ insta360_max_read = None
    /\ out = NoOutput
    /\ log = <<>>
    /\ merged = NotMerged

\* no per-track table: every track falls back on file_durations
LegacyInit(n, t) ==
    \E ct \in [1 .. n -> CreationTimes], fd \in [1 .. n -> Seconds],
       mts \in MovieTimescales, tr \in [1 .. t -> GapTrackDescs] :
         StartGaps(GapDesc(ct, fd, <<>>, mts, tr))

\* a row for each of two tracks (file_durations being the first track's), or
\* a row for the first track only
PerTrackInit ==
    \E ct \in StartTimes, r1 \in [1 .. 2 -> Seconds], r2 \in [1 .. 2 -> Seconds],
       mts \in MovieTimescales, tr \in TrackPairs :
         \/ StartGaps(GapDesc(ct, r1, <<r1, r2>>, mts, tr))
         \/ StartGaps(GapDesc(ct, r2, <<r1>>, mts, tr))

\* the Descs of the tests of desc_reader.rs (lines 339-663): movie timescale
\* 1000, two files, the second created `later` seconds after the first
TestDesc(later, durations, rows, media_timescales) ==
    GapDesc(<<0, later>>, [f \in 1 .. 2 |-> Fin(durations[f], 1)], rows, 1000,
            [t \in 1 .. Len(media_timescales) |->
                [TrackDesc EXCEPT !.mdhd_timescale = media_timescales[t]]])

TestDescs ==
    { TestDesc(5, <<2, 3>>, <<>>, <<48000>>),
      TestDesc(4, <<1, 1>>, <<>>, <<30000>>),
      TestDesc(6, <<2, 3>>, << <<Fin(2, 1), Fin(3, 1)>>, <<Fin(3, 2), Fin(5, 2)>> >>,
               <<30000, 1000>>),
      TestDesc(4, <<1, 2>>, <<>>, <<30000, 1000>>),
      TestDesc(5, <<2, 3>>, <<>>, <<30000, 1000>>) }

InitGaps ==
    \/ \E n \in 1 .. MaxGapFiles : LegacyInit(n, 1)
    \/ \E n \in 1 .. 2, t \in 2 .. MaxGapTracks : LegacyInit(n, t)
    \/ PerTrackInit
    \/ \E D \in TestDescs : StartGaps(D)

NextGaps == ComputeGaps

SpecGaps == InitGaps /\ [][NextGaps]_vars

----------------------------------------------------------------------------
(* The descriptor builder on headers without a timescale: files without    *)
(* creation times whose mvhd and mdhd have timescale 0 or 1 and duration 0  *)
(* or 1, up to the end of the structural pass.                             *)

ZeroHeaders == ({0, 1} \X {0, 1}) \cup {<<MaxTimescale, MaxDuration>>}

InitZero ==
    \E n \in {1, MaxFiles} :
      \E mv \in ZeroHeaders \X ZeroHeaders, md \in ZeroHeaders \X ZeroHeaders :
        Start(HeaderInput(n, Unstamped(n), mv, md))

NextZero ==
    \/ FindMdat \/ CallReadDesc
    \/ EnterContainer \/ Return
    \/ ReadMvhd \/ ReadTkhd \/ ReadMdhd
    \/ SkipLeaf
    \/ EndFile

SpecZero == InitZero /\ [][NextZero]_vars

----------------------------------------------------------------------------
(* What the specification says of the timeline engine, in its own terms.  *)
(* Seconds are rationals n/d; nothing below uses the engine's operators.  *)

\* the integer nearest to n/d (n >= 0, d > 0), a half counting upwards
Nearest(n, d) == CHOOSE r \in 0 .. (n \div d + 1) :
                    2 * r * d - d <= 2 * n /\ 2 * n < 2 * r * d + d

\* the nearest integer to the seconds x expressed in units of 1/ts second
InUnits(x, ts) ==
    IF x.k = "nan" \/ x.n <= 0 \/ ts = 0 THEN 0
    ELSE LET g == Gcd(ts, x.d) IN Nearest(x.n * (ts \div g), x.d \div g)

Engine     == pc = "rewrite"
Count      == Len(pre.file_creation_times)
TimeOf(f)  == pre.file_creation_times[f]

\* the gap before file f: the creation-time difference less the duration of
\* the file before it, provided that it exceeds one second
SpecGap(f) ==
    LET fd == pre.file_durations[f - 1]
    IN  IF /\ TimeOf(f) # None /\ TimeOf(f - 1) # None /\ fd.k = "fin"
           /\ (TimeOf(f) - TimeOf(f - 1) - 1) * fd.d > fd.n
        THEN Fin((TimeOf(f) - TimeOf(f - 1)) * fd.d - fd.n, fd.d)
        ELSE Zero

SomeGap == \E f \in 2 .. Count : SpecGap(f).n > 0

\* the duration of file f for track t
SpecDuration(t, f) ==
    IF t <= Len(pre.track_file_durations) /\ f <= Len(pre.track_file_durations[t])
    THEN pre.track_file_durations[t][f]
    ELSE pre.file_durations[f]

Plays(t, f) == SpecDuration(t, f).k = "fin" /\ SpecDuration(t, f).n > 0

\* the media time at which file f starts in track t
SpecMediaTime(t, f) ==
    SumSeq([j \in 1 .. (f - 1) |->
              IF Plays(t, j)
              THEN InUnits(SpecDuration(t, j), pre.moov_tracks[t].mdhd_timescale)
              ELSE 0])

\* the entries that file f contributes to the edit list of track t
SpecEntries(t, f) ==
    (IF f > 1 /\ SpecGap(f).n > 0
     THEN << [segment_duration |-> InUnits(SpecGap(f), pre.moov_mvhd_timescale),
              media_time |-> -1, media_rate |-> 65536] >>
     ELSE <<>>)
    \o
    (IF Plays(t, f)
     THEN << [segment_duration |->
                 InUnits(SpecDuration(t, f), pre.moov_mvhd_timescale),
              media_time |-> SpecMediaTime(t, f), media_rate |-> 65536] >>
     ELSE <<>>)

RECURSIVE Concat(_)
Concat(ss) == IF ss = <<>> THEN <<>> ELSE Head(ss) \o Concat(Tail(ss))

SpecEditList(t) == Concat([f \in 1 .. Count |-> SpecEntries(t, f)])

Tracks == 1 .. Len(desc.moov_tracks)

\* C1: when some gap between files is positive, the edit list of every track
\* that is not skipped is, file by file, an empty entry for a positive gap
\* before the file and then a media entry if the file has a duration for that
\* track, and nothing else.
C1_EditListRebuilt ==
    (Engine /\ SomeGap) =>
        \A t \in Tracks :
            ~pre.moov_tracks[t].skip =>
                desc.moov_tracks[t].elst_entries = SpecEditList(t)

\* files of 2 s and 3 s created 5 s apart, timescales 1000 and 48000
C1_Witness ==
    /\ Engine /\ SomeGap
    /\ desc.moov_tracks[1].elst_entries =
         << [segment_duration |-> 2000, media_time |-> 0, media_rate |-> 65536],
            [segment_duration |-> 3000, media_time |-> -1, media_rate |-> 65536],
            [segment_duration |-> 3000, media_time |-> 96000, media_rate |-> 65536] >>

NoTimestamps == \A f \in 1 .. Count : TimeOf(f) = None

\* C2: if no input file has a creation time, the engine returns the Desc it
\* was given: durations, edit lists and the movie duration are untouched.
C2_NoTimestampsNoChange ==
    (Engine /\ NoTimestamps) => desc = pre

C2_Witness ==
    /\ Engine /\ NoTimestamps /\ Count = 2
    /\ \A f \in 1 .. 2 : pre.file_durations[f].n > 0
    /\ desc.moov_tracks[1].tkhd_duration = PriorTkhd
    /\ desc.moov_tracks[1].elst_entries = <<>>

\* C3: the gap before a file is the creation-time difference less the duration
\* of the file before it, 0 unless both times exist and the result exceeds one
\* second; when every gap is 0 the engine returns the Desc it was given.
C3_GapThreshold ==
    Engine =>
        /\ \A f \in 2 .. Count : Gaps(pre)[f - 1] = SpecGap(f)
        /\ ~SomeGap => desc = pre

\* two stamped files whose net gap is exactly one second
C3_Witness ==
    /\ Engine /\ Count = 2 /\ TimeOf(1) = 0 /\ TimeOf(2) = GapTime - 1
    /\ pre.file_durations[1] = Fin(GapTime - 2, 1)
    /\ ~SomeGap /\ desc = pre

\* elst_segment_duration movie units in the media timescale of the track,
\* to the nearest unit
SpecTkhd(t) ==
    LET track == desc.moov_tracks[t]
    IN  IF pre.moov_mvhd_timescale > 0 /\ track.mdhd_timescale > 0
        THEN InUnits(Fin(track.elst_segment_duration, pre.moov_mvhd_timescale),
                     track.mdhd_timescale)
        ELSE track.elst_segment_duration

\* C4: a track rebuilt by the engine has tkhd_duration =
\* round(elst_segment_duration / movie timescale x media timescale) when both
\* timescales are positive, and elst_segment_duration otherwise.
C4_TkhdConverted ==
    (Engine /\ SomeGap) =>
        \A t \in Tracks :
            ~pre.moov_tracks[t].skip =>
                desc.moov_tracks[t].tkhd_duration = SpecTkhd(t)

\* 8000 movie units at 1000/48000, or 5000 at 1000/30000
C4_Witness ==
    /\ Engine /\ SomeGap /\ pre.moov_mvhd_timescale = 1000
    /\ \/ /\ desc.moov_tracks[1].elst_segment_duration = 8000
          /\ desc.moov_tracks[1].mdhd_timescale = 48000
          /\ desc.moov_tracks[1].tkhd_duration = 384000
       \/ /\ desc.moov_tracks[1].elst_segment_duration = 5000
          /\ desc.moov_tracks[1].mdhd_timescale = 30000
          /\ desc.moov_tracks[1].tkhd_duration = 150000

\* tkhd_duration x movie timescale - elst_segment_duration x media timescale
Drift(t) ==
    Abs(desc.moov_tracks[t].tkhd_duration * pre.moov_mvhd_timescale
        - desc.moov_tracks[t].elst_segment_duration
            * desc.moov_tracks[t].mdhd_timescale)

\* C5 as stated: for every track rebuilt by the engine the two products differ
\* by at most 1, whatever the timescales.
C5_DriftAtMostOne ==
    (Engine /\ SomeGap) =>
        \A t \in Tracks : ~pre.moov_tracks[t].skip => Drift(t) <= 1

\* C5: for every track rebuilt by the engine with both timescales positive the
\* two products differ by at most half the movie timescale.
C5_DriftAtMostHalfTimescale ==
    (Engine /\ SomeGap) =>
        \A t \in Tracks :
            (/\ ~pre.moov_tracks[t].skip
             /\ pre.moov_mvhd_timescale > 0
             /\ desc.moov_tracks[t].mdhd_timescale > 0)
            => 2 * Drift(t) <= pre.moov_mvhd_timescale

\* a rebuilt track whose products differ by half the movie timescale
C5_Witness ==
    /\ Engine /\ SomeGap
    /\ \E t \in Tracks :
         /\ ~pre.moov_tracks[t].skip
         /\ desc.moov_tracks[t].mdhd_timescale > 0
         /\ pre.moov_mvhd_timescale > 2
         /\ 2 * Drift(t) = pre.moov_mvhd_timescale

RECURSIVE MediaEntries(_)
MediaEntries(entries) ==
    IF entries = <<>> THEN <<>>
    ELSE (IF Head(entries).media_time # -1 THEN <<Head(entries)>> ELSE <<>>)
         \o MediaEntries(Tail(entries))

\* the entries of the files that play in track t: duration in movie units, and
\* the media units of the files played before
SpecMedia(t) ==
    Concat([f \in 1 .. Count |->
              IF Plays(t, f)
              THEN << [segment_duration |->
                          InUnits(SpecDuration(t, f), pre.moov_mvhd_timescale),
                       media_time |-> SpecMediaTime(t, f),
                       media_rate |-> 65536] >>
              ELSE <<>>])

\* C7: each track takes the duration of a file from its own row of the
\* per-track table when it has one and from file_durations otherwise; the
\* media entry of a file starts at the sum, over the earlier files that play,
\* of their durations in the media timescale of the track.
C7_PerTrackDurations ==
    (Engine /\ SomeGap) =>
        \A t \in Tracks :
            ~pre.moov_tracks[t].skip =>
                MediaEntries(desc.moov_tracks[t].elst_entries) = SpecMedia(t)

\* video 2 s / 3 s at 30000 and metadata 1.5 s / 2.5 s at 1000
C7_Witness ==
    /\ Engine /\ SomeGap /\ Len(desc.moov_tracks) = 2
    /\ Len(pre.track_file_durations) = 2
    /\ Len(desc.moov_tracks[1].elst_entries) = 3
    /\ Len(desc.moov_tracks[2].elst_entries) = 3
    /\ desc.moov_tracks[1].elst_entries[1].segment_duration = 2000
    /\ desc.moov_tracks[1].elst_entries[3].segment_duration = 3000
    /\ desc.moov_tracks[1].elst_entries[3].media_time = 60000
    /\ desc.moov_tracks[2].elst_entries[1].segment_duration = 1500
    /\ desc.moov_tracks[2].elst_entries[3].segment_duration = 2500
    /\ desc.moov_tracks[2].elst_entries[3].media_time = 1500

\* the first track was rebuilt and has entries
FirstTrackRebuilt ==
    /\ SomeGap /\ Len(desc.moov_tracks) > 0
    /\ ~pre.moov_tracks[1].skip
    /\ desc.moov_tracks[1].elst_entries # <<>>

\* C8: when gaps are computed and the first track is not skipped and has a
\* non-empty edit list, the movie duration becomes the elst_segment_duration
\* of that track; otherwise the movie duration is the one the engine was given.
C8_MovieDuration ==
    Engine =>
        desc.moov_mvhd_duration =
            IF FirstTrackRebuilt THEN desc.moov_tracks[1].elst_segment_duration
            ELSE pre.moov_mvhd_duration

\* 2 s, a gap of 3 s, 3 s
C8_Witness ==
    /\ Engine /\ FirstTrackRebuilt
    /\ pre.moov_mvhd_timescale = 1000
    /\ pre.moov_mvhd_duration = PriorMovie
    /\ desc.moov_mvhd_duration = 8000

RECURSIVE TotalSegments(_)
TotalSegments(entries) ==
    IF entries = <<>> THEN 0
    ELSE Head(entries).segment_duration + TotalSegments(Tail(entries))

SegmentsAgree(t) ==
    desc.moov_tracks[t].elst_segment_duration =
        TotalSegments(desc.moov_tracks[t].elst_entries)

\* C6 as stated: after the timeline pass every track, skipped or not, gaps
\* found or not, has elst_segment_duration equal to the sum of the
\* segment_duration of its elst_entries.
C6_SegmentSumEveryTrack ==
    Engine => \A t \in Tracks : SegmentsAgree(t)

\* C6: after a timeline pass that found a positive gap, every track that is
\* not skipped has elst_segment_duration equal to the sum of the
\* segment_duration of its elst_entries.
C6_SegmentSumRebuiltTracks ==
    (Engine /\ SomeGap) =>
        \A t \in Tracks : ~pre.moov_tracks[t].skip => SegmentsAgree(t)

\* files with edit lists were read, a gap was found and a track was rebuilt
\* with another total than the one read
C6_Witness ==
    /\ Engine /\ SomeGap /\ files # <<>>
    /\ \E t \in Tracks :
         /\ ~pre.moov_tracks[t].skip
         /\ pre.moov_tracks[t].elst_segment_duration > 0
         /\ desc.moov_tracks[t].elst_entries # <<>>
         /\ desc.moov_tracks[t].elst_segment_duration
                # pre.moov_tracks[t].elst_segment_duration
         /\ SegmentsAgree(t)

SampleTablesOf(track) ==
    << track.stts, track.stsz, track.stss, track.stco, track.stsc, track.sdtp,
       track.stsz_count >>

\* C9: a track marked skip by a tmcd box in the first file keeps, through
\* every later file, the stts, stsz, stss, stco, stsc and sdtp arrays and the
\* stsz_count it had after the first file.
C9_SkipTrackTablesFrozen ==
    first # <<>> =>
        \A t \in 1 .. Len(first) :
            first[t].skip =>
                SampleTablesOf(desc.moov_tracks[t]) = SampleTablesOf(first[t])

\* all files are read; a timecode track kept the tables of the first file
\* while another track grew
C9_Witness ==
    /\ pc = "gaps" /\ i > 1 /\ first # <<>>
    /\ \E t \in 1 .. Len(first) :
         /\ first[t].skip
         /\ first[t].stco # <<>> /\ first[t].stsz_count > 0
         /\ SampleTablesOf(desc.moov_tracks[t]) = SampleTablesOf(first[t])
    /\ \E t \in 1 .. Len(first) :
         /\ ~desc.moov_tracks[t].skip
         /\ Len(desc.moov_tracks[t].stco) > Len(first[t].stco)

\* the boxes of one type among boxes, in their order
RECURSIVE BoxesOf(_, _)
BoxesOf(boxes, typ) ==
    IF boxes = <<>> THEN <<>>
    ELSE (IF Head(boxes).typ = typ THEN <<Head(boxes)>> ELSE <<>>)
         \o BoxesOf(Tail(boxes), typ)

\* the first of them; a box that is not there has neither boxes nor values
BoxOf(boxes, typ) ==
    IF BoxesOf(boxes, typ) = <<>> THEN Leaf(typ) ELSE BoxesOf(boxes, typ)[1]

\* the headers of the input files, as they are written in them
MoovOf(f)    == BoxOf(files[f].boxes, "moov")
MvhdOf(f)    == BoxOf(MoovOf(f).kids, "mvhd")
TraksOf(f)   == BoxesOf(MoovOf(f).kids, "trak")
TrakOf(f, t) == IF t <= Len(TraksOf(f)) THEN TraksOf(f)[t] ELSE Leaf("trak")
TkhdOf(f, t) == BoxOf(TrakOf(f, t).kids, "tkhd")
MdhdOf(f, t) == BoxOf(BoxOf(TrakOf(f, t).kids, "mdia").kids, "mdhd")

\* the first timescale that is not 0, or 0
RECURSIVE FirstNonZero(_)
FirstNonZero(timescales) ==
    IF timescales = <<>> THEN 0
    ELSE IF Head(timescales) # 0 THEN Head(timescales)
    ELSE FirstNonZero(Tail(timescales))

\* ceil(duration / from x to); a header without a timescale has no duration
\* and adds nothing
CeilIn(duration, from, to) ==
    IF from = 0 \/ to = 0 THEN 0
    ELSE LET g == Gcd(from, to)
         IN  (duration * (to \div g) + (from \div g) - 1) \div (from \div g)

RECURSIVE Total(_)
Total(numbers) ==
    IF numbers = <<>> THEN 0 ELSE Head(numbers) + Total(Tail(numbers))

StructuralPassDone == pc = "gaps"

OutTimescale == FirstNonZero([f \in 1 .. Len(files) |-> MvhdOf(f).timescale])

TrackTimescale(t) ==
    FirstNonZero([f \in 1 .. Len(files) |-> MdhdOf(f, t).timescale])

\* C10: after the structural pass the movie timescale is the first non-zero
\* mvhd timescale and the movie duration the sum over the files of
\* ceil(duration / timescale x movie timescale); each track has the first
\* non-zero mdhd timescale, the sum of ceil(duration / timescale x that
\* timescale) as mdhd_duration, and as tkhd_duration the sum of the tkhd
\* durations scaled from the movie timescale of their own file; the tracks
\* are those of the descriptor.
C10_HeadersAccumulated ==
    StructuralPassDone =>
        /\ desc.moov_mvhd_timescale = OutTimescale
        /\ desc.moov_mvhd_duration =
             Total([f \in 1 .. Len(files) |->
                      CeilIn(MvhdOf(f).duration, MvhdOf(f).timescale,
                             OutTimescale)])
        /\ \A t \in 1 .. Len(TraksOf(1)) \cap 1 .. Len(desc.moov_tracks) :
             /\ desc.moov_tracks[t].mdhd_timescale = TrackTimescale(t)
             /\ desc.moov_tracks[t].mdhd_duration =
                  Total([f \in 1 .. Len(files) |->
                           CeilIn(MdhdOf(f, t).duration, MdhdOf(f, t).timescale,
                                  TrackTimescale(t))])
             /\ desc.moov_tracks[t].tkhd_duration =
                  Total([f \in 1 .. Len(files) |->
                           CeilIn(TkhdOf(f, t).duration, MvhdOf(f).timescale,
                                  OutTimescale)])

\* two files of 2000 at 1000 with a track of 96000 at 48000
C10_Witness ==
    /\ StructuralPassDone /\ Len(files) = 2
    /\ \A f \in 1 .. 2 :
         /\ MvhdOf(f).timescale = 1000 /\ MvhdOf(f).duration = 2000
         /\ MdhdOf(f, 1).timescale = 48000 /\ MdhdOf(f, 1).duration = 96000
    /\ desc.moov_mvhd_timescale = 1000
    /\ desc.moov_mvhd_duration = 4000
    /\ desc.moov_tracks[1].tkhd_duration = 4000
    /\ desc.moov_tracks[1].mdhd_timescale = 48000
    /\ desc.moov_tracks[1].mdhd_duration = 192000

----------------------------------------------------------------------------
(* The output of the rewriter *)

\* the merge the output is of: the one under way or, while its output is
\* read back, the one that was finished
Merge ==
    IF ReadingBack THEN merged
    ELSE [files |-> files, desc |-> desc, out |-> out]

\* the rewriter has run, and its output is not yet read back
Rewritten == ~ReadingBack /\ out.boxes # <<>>

\* the boxes of one type in a tree of boxes, in the order of the file
RECURSIVE Find(_, _)
Find(boxes, typ) ==
    IF boxes = <<>> THEN <<>>
    ELSE (IF Head(boxes).typ = typ THEN << Head(boxes) >>
          ELSE Find(Head(boxes).kids, typ))
         \o Find(Tail(boxes), typ)

\* the trak boxes of the output, and the tables of one type of the t-th
OutTraks        == Find(out.boxes, "trak")
OutTables(t, typ) == Find(OutTraks[t].kids, typ)

Larger(a, b) == IF a >= b THEN a ELSE b

\* the edit list the spec asks for: the entries of the track, or one entry
\* as long as the longer of the edit lists read and the media
SpecElst(track) ==
    IF track.elst_entries # <<>> THEN track.elst_entries
    ELSE << [segment_duration |->
               Larger(track.elst_segment_duration, track.mdhd_duration),
             media_time |-> 0, media_rate |-> 65536] >>

\* C11: every elst of the output is version 1 (8-byte durations and media
\* times, so 20 bytes an entry); it has the entries of the track's edit list
\* in their order and their number as its count, or, when the track has
\* none, the one entry {max(elst_segment_duration, mdhd_duration), 0,
\* 0x00010000}.
C11_ElstWritten ==
    Rewritten =>
        \A t \in 1 .. Len(OutTraks) :
            \A e \in 1 .. Len(OutTables(t, "elst")) :
                LET elst == OutTables(t, "elst")[e]
                IN  /\ elst.version = 1
                    /\ elst.entries = SpecElst(Merge.desc.moov_tracks[t])
                    /\ elst.count = Len(elst.entries)
                    /\ elst.size = 16 + 20 * elst.count

\* two contiguous files of 96000 each, without creation times: the one
\* entry lasts 192000
C11_Witness ==
    /\ Rewritten
    /\ Merge.desc.moov_tracks[1].elst_entries = <<>>
    /\ Merge.desc.moov_tracks[1].elst_segment_duration = 4000
    /\ OutTables(1, "elst")[1].entries =
         << [segment_duration |-> 192000, media_time |-> 0,
             media_rate |-> 65536] >>

\* an edit list rebuilt with a gap is written entry by entry
C11_RebuiltWritten ==
    /\ Rewritten
    /\ Len(Merge.desc.moov_tracks[1].elst_entries) = 3
    /\ Len(OutTables(1, "elst")) = 1
    /\ OutTables(1, "elst")[1].count = 3

\* every input has an mdat box, and the rewriter reads the first file to its
\* end or to the vendor trailer of that file
Valid ==
    /\ \A f \in 1 .. Len(Merge.files) : Merge.files[f].mdat_offset # None
    /\ Merge.files[1].trailer = 0 => \A f \in 1 .. Len(Merge.files) :
                                       Merge.files[f].trailer = 0

\* the post-patch of the merge has run
PostPatched == ~ReadingBack /\ pc \in {"hook", "final", "done"}

\* the first byte of the body of the mdat written
merged_payload_base == Find(Merge.out.boxes, "mdat")[1].at + 16

\* the mdat bodies of the files before file f, in bytes
BodiesBefore(f) ==
    Total([g \in 1 .. (f - 1) |-> Merge.files[g].mdat_length])

\* the chunk offsets of track t as file f has them
RawOffsets(f, t) ==
    LET traks == Find(Merge.files[f].boxes, "trak")
    IN  IF t > Len(traks) THEN <<>>
        ELSE Concat([b \in 1 .. Len(Find(traks[t].kids, "stco")) |->
                        Find(traks[t].kids, "stco")[b].entries])
             \o Concat([b \in 1 .. Len(Find(traks[t].kids, "co64")) |->
                        Find(traks[t].kids, "co64")[b].entries])

\* the files the tables of track t are taken from: a skipped track takes
\* those of the first file only
Sources(t) ==
    IF t > Len(Merge.desc.moov_tracks) THEN 1 .. 1
    ELSE IF Merge.desc.moov_tracks[t].skip THEN 1 .. 1
    ELSE 1 .. Len(Merge.files)

\* where the chunks of track t lie in the output: each one as far into the
\* merged body as it was into the body of its file, behind the bodies of the
\* files before it
SpecOffsets(t) ==
    Concat([f \in Sources(t) |->
              [c \in 1 .. Len(RawOffsets(f, t)) |->
                  RawOffsets(f, t)[c] - Merge.files[f].mdat_offset
                      + BodiesBefore(f) + merged_payload_base]])

\* the chunk offsets of the t-th trak of the output
OutOffsets(t) ==
    Concat([b \in 1 .. Len(Find(Find(Merge.out.boxes, "trak")[t].kids, "co64")) |->
              Find(Find(Merge.out.boxes, "trak")[t].kids, "co64")[b].entries])

RECURSIVE ChunkTables(_)
ChunkTables(boxes) ==
    IF boxes = <<>> THEN <<>>
    ELSE (IF Head(boxes).typ \in {"stco", "co64"} THEN << Head(boxes) >>
          ELSE ChunkTables(Head(boxes).kids))
         \o ChunkTables(Tail(boxes))

FirstFileTraks == Find(Merge.files[1].boxes, "trak")
MergedTraks    == Find(Merge.out.boxes, "trak")

\* C13: every chunk-offset table of the first file, stco or co64, is written
\* as a co64 box with 8-byte entries; once the post-patch has run, every
\* entry is the relative offset the track holds plus the final
\* merged_payload_base, whether mdat comes before moov or after it.
C13_Co64Patched ==
    Rewritten =>
        \A t \in 1 .. Len(MergedTraks) :
            LET tables == ChunkTables(MergedTraks[t].kids)
                track  == Merge.desc.moov_tracks[t]
            IN  /\ Len(tables) = Len(ChunkTables(FirstFileTraks[t].kids))
                /\ \A b \in 1 .. Len(tables) :
                     /\ tables[b].typ = "co64"
                     /\ tables[b].size = 16 + 8 * Len(tables[b].entries)
                     /\ tables[b].count = Len(track.stco)
                     /\ (PostPatched /\ Find(Merge.out.boxes, "mdat") # <<>>) =>
                          tables[b].entries =
                            [c \in 1 .. Len(track.stco) |->
                               track.stco[c] + merged_payload_base]

\* moov ahead of mdat: the stco of the first track of the first file is a
\* co64 in the output, whose entries point into the body written after it
C13_Witness ==
    /\ pc = "done" /\ Len(files) = 2 /\ Valid
    /\ FirstFileTraks # <<>> /\ MergedTraks # <<>>
    /\ ChunkTables(FirstFileTraks[1].kids) # <<>>
    /\ ChunkTables(FirstFileTraks[1].kids)[1].typ = "stco"
    /\ ChunkTables(MergedTraks[1].kids)[1].typ = "co64"
    /\ merged_payload_base > ChunkTables(MergedTraks[1].kids)[1].at
    /\ Len(desc.moov_tracks[1].stco) = 4
    /\ ChunkTables(MergedTraks[1].kids)[1].entries[4] =
         merged_payload_base + files[1].mdat_length + 2

\* before the post-patch the entries of such a table are not the final ones
C13_StaleBeforePatch ==
    /\ pc = "patch" /\ Len(files) = 2
    /\ Find(out.boxes, "mdat") # <<>>
    /\ ChunkTables(MergedTraks[1].kids) # <<>>
    /\ ChunkTables(MergedTraks[1].kids)[1].entries[1] # merged_payload_base

\* the mdat boxes at the top level of the output
MergedMdats == BoxesOf(Merge.out.boxes, "mdat")

\* the mdat bodies of the inputs, in input order
InputBodies ==
    [f \in 1 .. Len(Merge.files) |->
        [file |-> f, offset |-> Merge.files[f].mdat_offset,
         size |-> Merge.files[f].mdat_length]]

\* the place of the box after the b-th box of the output, or of its end
PlaceAfter(boxes, b) ==
    IF b < Len(boxes) THEN boxes[b + 1].at ELSE boxes[b].at + boxes[b].size

RECURSIVE Expand(_)
Expand(runs) ==
    IF runs = <<>> THEN <<>>
    ELSE [k \in 1 .. Head(runs)[1] |-> Head(runs)[2]] \o Expand(Tail(runs))

SampleCount(runs) == Total([r \in 1 .. Len(runs) |-> runs[r][1]])

\* C15: an stts of the output is run-length-minimal and lossless: no two
\* adjacent runs have the same delta, and its runs stand for the same deltas,
\* sample by sample, as the runs merged for the track; so the number of
\* samples is kept.
C15_SttsCoalesced ==
    Rewritten =>
        \A t \in 1 .. Len(MergedTraks) :
            \A b \in 1 .. Len(Find(MergedTraks[t].kids, "stts")) :
                LET stts   == Find(MergedTraks[t].kids, "stts")[b]
                    merged_stts == Merge.desc.moov_tracks[t].stts
                IN  /\ \A r \in 1 .. (Len(stts.entries) - 1) :
                         stts.entries[r][2] # stts.entries[r + 1][2]
                    /\ Expand(stts.entries) = Expand(merged_stts)
                    /\ SampleCount(stts.entries) = SampleCount(merged_stts)
                    /\ stts.count = Len(stts.entries)
                    /\ stts.size = 16 + 8 * Len(stts.entries)

\* the runs (1,20) (1,20) of the first file and (1,20) (1,30) of the second
\* are written as (3,20) (1,30)
C15_Witness ==
    /\ pc = "done" /\ Len(files) = 2 /\ Len(MergedTraks) = 2
    /\ desc.moov_tracks[2].stts = << <<1, 20>>, <<1, 20>>, <<1, 20>>, <<1, 30>> >>
    /\ Find(MergedTraks[2].kids, "stts")[1].entries = << <<3, 20>>, <<1, 30>> >>

\* the output of a merge has been read as the only input of another one
ReadAgain == pc = "reread"

\* the tables of one type that track t has in file f, and their entries
InputTables(f, t, typ) ==
    LET traks == Find(Merge.files[f].boxes, "trak")
    IN  IF t > Len(traks) THEN <<>> ELSE Find(traks[t].kids, typ)

TableEntries(f, t, typ) ==
    Concat([b \in 1 .. Len(InputTables(f, t, typ)) |->
              InputTables(f, t, typ)[b].entries])

\* what the descriptor holds of a table, by the type of its box
Held(track, typ) ==
    CASE typ = "stts" -> track.stts
      [] typ = "stsz" -> track.stsz
      [] typ = "stss" -> track.stss
      [] typ = "stco" -> track.stco
      [] typ = "stsc" -> track.stsc
      [] typ = "sdtp" -> track.sdtp

\* the entries that the files in fs have in the tables of a type of track t
InputLength(fs, t, typ) ==
    Total([f \in fs |->
             IF typ = "stco" THEN Len(RawOffsets(f, t))
             ELSE Len(TableEntries(f, t, typ))])

OneRegion == Len(desc.mdat_position) = 1

\* C16 as the spec states it: read back, the output has one mdat region, and
\* each of the six tables of each track is as long as the tables of the
\* inputs together.
C16_RoundTripSums ==
    (ReadAgain /\ Valid) =>
        /\ OneRegion
        /\ \A t \in 1 .. Len(MergedTraks) \cap 1 .. Len(desc.moov_tracks) :
             \A typ \in {"stts", "stsz", "stss", "stco", "stsc", "sdtp"} :
                Len(Held(desc.moov_tracks[t], typ)) =
                    InputLength(1 .. Len(Merge.files), t, typ)

\* the files give the sizes of the samples of track t in the same way
SizedAlike(t) ==
    \A f, g \in 1 .. Len(Merge.files) :
        \A a \in 1 .. Len(InputTables(f, t, "stsz")) :
            \A b \in 1 .. Len(InputTables(g, t, "stsz")) :
                (InputTables(f, t, "stsz")[a].sample_size = 0)
                    = (InputTables(g, t, "stsz")[b].sample_size = 0)

\* C16 for inputs the files of which give the sizes of the samples in the
\* same way: read back, the output has one mdat region; stsz, stss, stco,
\* stsc and sdtp of a track are as long as those of the files the track is
\* taken from together (all of them, or the first one for a skipped track),
\* and its stts stands for the deltas of their stts runs in order, with no
\* two adjacent runs of one delta.
C16_RoundTripTables ==
    (ReadAgain /\ Valid /\ \A t \in 1 .. Len(MergedTraks) : SizedAlike(t)) =>
        /\ OneRegion
        /\ \A t \in 1 .. Len(MergedTraks) \cap 1 .. Len(desc.moov_tracks) :
             LET track == desc.moov_tracks[t]
             IN  /\ \A typ \in {"stsz", "stss", "stco", "stsc", "sdtp"} :
                      Len(Held(track, typ)) = InputLength(Sources(t), t, typ)
                 /\ track.stsz_count =
                      Total([f \in Sources(t) |->
                               Total([b \in 1 .. Len(InputTables(f, t, "stsz")) |->
                                        InputTables(f, t, "stsz")[b].count])])
                 /\ Expand(track.stts) =
                      Expand(Concat([f \in Sources(t) |->
                                       TableEntries(f, t, "stts")]))
                 /\ \A r \in 1 .. (Len(track.stts) - 1) :
                      track.stts[r][2] # track.stts[r + 1][2]

\* two files with two tracks read back: four chunks, four sample sizes and
\* one stts run for the first track, where the inputs have two runs
C16_Witness ==
    /\ ReadAgain /\ Valid /\ Len(Merge.files) = 2 /\ Len(MergedTraks) = 2
    /\ ~Merge.desc.moov_tracks[1].skip
    /\ OneRegion
    /\ Len(desc.moov_tracks[1].stco) = 4
    /\ Len(desc.moov_tracks[1].stsz) = 4
    /\ InputLength(1 .. 2, 1, "stts") = 2
    /\ desc.moov_tracks[1].stts = << <<4, 10>> >>

\* the first file has the constant size 4 and the second an array of two
\* sizes: the box written has four samples and two sizes, and read back the
\* track has four sizes, two of them from the bytes of the next box
C16_MixedReadBack ==
    /\ ReadAgain /\ Valid /\ Len(Merge.files) = 2 /\ MergedTraks # <<>>
    /\ \A f \in 1 .. 2 : Len(InputTables(f, 1, "stsz")) = 1
    /\ InputTables(1, 1, "stsz")[1].sample_size = 4
    /\ InputLength(1 .. 2, 1, "stsz") = 2
    /\ Len(desc.moov_tracks[1].stsz) = 4
    /\ desc.moov_tracks[1].stsz[4] = Beyond

----------------------------------------------------------------------------
(* The steps and the progress callbacks of a merge *)

\* x <= y and x < y for two values that are numbers
AtMost(x, y) == x.k = "fin" /\ y.k = "fin" /\ x.n * y.d <= y.n * x.d
Below(x, y)  == x.k = "fin" /\ y.k = "fin" /\ x.n * y.d < y.n * x.d

One   == Fin(1, 1)
Tenth == Fin(1, 10)

\* the places of the callbacks in the log, and of the steps
Reported  == { k \in 1 .. Len(log) : log[k].ev = "progress" }
Steps     == { k \in 1 .. Len(log) : log[k].ev # "progress" }
\* the callbacks of the write phase: those after the rewriter was started
Writing(k) == \E r \in 1 .. (k - 1) : log[r].ev = "rewrite"

\* C17: the callback after the structural pass of file i of N (counted from
\* 0) reports (i + 1) / N x 0.1; a value reported in the write phase is at
\* least 0.1 and, unless it is the final one, below 1.0; every value lies in
\* [0.0, 1.0]; 1.0 is reported at most once, as the last callback, only by a
\* merge that succeeds, and a merge that has succeeded has reported it.
C17_ProgressContract ==
    /\ \A k \in Reported :
         /\ AtMost(Zero, log[k].value) /\ AtMost(log[k].value, One)
         /\ log[k].file > 0 =>
              /\ log[k].value = Fin(log[k].file, 10 * Len(files))
              /\ k > 1 /\ log[k - 1] = Event("advance", log[k].file, Zero)
         /\ Writing(k) =>
              /\ AtMost(Tenth, log[k].value)
              /\ log[k].value # One => Below(log[k].value, One)
         /\ log[k].value = One => k = Len(log) /\ pc = "done"
    /\ \A k \in Steps :
         log[k].ev = "advance" =>
             k < Len(log) /\ log[k + 1].ev = "progress"
                          /\ log[k + 1].file = log[k].file
    /\ pc = "done" => log # <<>> /\ log[Len(log)] = Event("progress", 0, One)

\* a merge of two files that has succeeded: 0.05, 0.1, a value of the write
\* phase between 0.1 and 1.0, and 1.0 at the end
C17_Witness ==
    /\ pc = "done" /\ Len(files) = 2
    /\ \E a, b, c \in Reported :
         /\ a < b /\ b < c /\ c < Len(log)
         /\ log[a].value = Fin(1, 20)
         /\ log[b].value = Tenth
         /\ Writing(c) /\ Below(Tenth, log[c].value) /\ Below(log[c].value, One)
    /\ log[Len(log)].value = One

----------------------------------------------------------------------------
(* The movie duration when the first track is not played *)

\* the tracks that are not skipped and have an edit list after the engine
Playable ==
    { t \in 1 .. Len(desc.moov_tracks) :
        ~pre.moov_tracks[t].skip /\ desc.moov_tracks[t].elst_entries # <<>> }

FirstPlayable == CHOOSE t \in Playable : \A u \in Playable : t <= u

\* C18: when gaps are computed, the movie duration is the
\* elst_segment_duration of the first track that is not skipped and has a
\* non-empty edit list, also when that is not the first track.
C18_MovieDurationFromFirstPlayable ==
    (Engine /\ SomeGap /\ Playable # {}) =>
        desc.moov_mvhd_duration =
            desc.moov_tracks[FirstPlayable].elst_segment_duration

\* the first track is skipped, the second one is rebuilt with a gap, and the
\* movie duration is still the one the engine was given
C18_Witness ==
    /\ Engine /\ SomeGap /\ Len(desc.moov_tracks) = 2
    /\ pre.moov_tracks[1].skip
    /\ Playable = {2}
    /\ desc.moov_mvhd_duration = pre.moov_mvhd_duration
    /\ desc.moov_mvhd_duration # desc.moov_tracks[2].elst_segment_duration

----------------------------------------------------------------------------
(* The order of the phases *)

Phase(ev, file) == Event(ev, file, Zero)
Final == Event("progress", 0, One)

\* the steps taken so far and the final callback, without the other callbacks
Phases == SelectSeq(log, LAMBDA e : e.ev # "progress" \/ e = Final)

\* the trailer magic is at the end of the first input
FirstHasMagic == files[1].trailer > 0

\* the phases of a whole merge of the files, in the order the spec gives
SpecPhases ==
    Concat([f \in 1 .. Len(files) |->
              << Phase("locate", f), Phase("build", f), Phase("advance", f) >>])
    \o << Phase("timeline", 0), Phase("rewrite", 0), Phase("patch", 0) >>
    \o (IF FirstHasMagic THEN << Phase("hook", 0) >> ELSE <<>>)
    \o << Final >>

IsPrefix(a, b) == Len(a) <= Len(b) /\ SubSeq(b, 1, Len(a)) = a

\* C19: the phases of a merge run in this order: for each input in input
\* order locate mdat, descriptor builder, post-file advance; then the
\* timeline engine, the rewriter, the post-patch, the vendor-trailer hook if
\* and only if the first input ends with the trailer magic, and the final
\* callback; a merge that fails has run a prefix of them and no phase after
\* the failure, a merge that succeeds has run them all.
C19_PhaseOrder ==
    ~ReadingBack =>
        /\ IsPrefix(Phases, SpecPhases)
        /\ pc = "done" => Phases = SpecPhases
        /\ pc \in {"error", "panic"} => Phases # SpecPhases

\* the first input has no trailer, the second one has: the hook has run, and
\* the rewriter, held to the length of the second input, has stopped before
\* the mdat of the first
C19_Witness ==
    /\ pc = "done" /\ ~ReadingBack /\ Len(files) = 2
    /\ ~FirstHasMagic /\ files[2].trailer > 0
    /\ \A f \in 1 .. 2 : files[f].mdat_offset # None
    /\ \E k \in 1 .. Len(log) : log[k].ev = "hook"
    /\ insta360_max_read = FileSize(files[2]) - files[2].trailer
    /\ Find(out.boxes, "mdat") = <<>>

\* the order holds when no later input ends with the magic unless the first does
C19_OrderWithoutLateTrailer ==
    (~ReadingBack /\ (FirstHasMagic \/ \A f \in 1 .. Len(files) :
                                          files[f].trailer = 0)) =>
        /\ IsPrefix(Phases, SpecPhases)
        /\ pc = "done" => Phases = SpecPhases
        /\ pc \in {"error", "panic"} => Phases # SpecPhases

----------------------------------------------------------------------------
(* Sample and chunk numbers across files *)

\* the samples and the chunks that track t has in the files before file f
SamplesBefore(f, t) ==
    Total([g \in 1 .. (f - 1) |->
             Total([b \in 1 .. Len(InputTables(g, t, "stsz")) |->
                      InputTables(g, t, "stsz")[b].count])])

ChunksBefore(f, t) ==
    Total([g \in 1 .. (f - 1) |-> Len(RawOffsets(g, t))])

SpecStss(t) ==
    Concat([f \in Sources(t) |->
              [e \in 1 .. Len(TableEntries(f, t, "stss")) |->
                  TableEntries(f, t, "stss")[e] + SamplesBefore(f, t)]])

SpecStsc(t) ==
    Concat([f \in Sources(t) |->
              [e \in 1 .. Len(TableEntries(f, t, "stsc")) |->
                  << TableEntries(f, t, "stsc")[e][1] + ChunksBefore(f, t),
                     TableEntries(f, t, "stsc")[e][2],
                     TableEntries(f, t, "stsc")[e][3] >>]])

\* the sample tables of track t of file f, in the order of its stbl
StblOf(f, t) == Find(Find(files[f].boxes, "trak")[t].kids, "stbl")[1].kids

\* box a comes before box b among boxes
Precedes(boxes, a, b) ==
    \E j, k \in 1 .. Len(boxes) :
        j < k /\ boxes[j].typ = a /\ boxes[k].typ = b

\* C20: after the structural pass, every stss entry of file k is recorded as
\* its raw value + the samples of the track in the files before k, and every
\* stsc first_chunk as its raw value + the chunks of the track in the files
\* before k, whatever the order of stss, stsc, stsz and stco in the stbl.
C20_Renumbered ==
    (StructuralPassDone /\ ~ReadingBack) =>
        \A t \in 1 .. Len(Find(files[1].boxes, "trak"))
                  \cap 1 .. Len(desc.moov_tracks) :
            /\ desc.moov_tracks[t].stss = SpecStss(t)
            /\ desc.moov_tracks[t].stsc = SpecStsc(t)

\* two files in which stco and stsz come before stsc and stss: the sync
\* sample 1 of the second file is sample 3, its chunk 1 is chunk 3
C20_Witness ==
    /\ StructuralPassDone /\ ~ReadingBack /\ Len(files) = 2
    /\ Len(Find(files[2].boxes, "trak")) = 2
    /\ Precedes(StblOf(2, 1), "stsz", "stss")
    /\ Precedes(StblOf(2, 1), "stco", "stsc")
    /\ ~desc.moov_tracks[1].skip
    /\ TableEntries(2, 1, "stss") = << 1 >>
    /\ desc.moov_tracks[1].stss = << 1, 3 >>
    /\ desc.moov_tracks[1].stsc = << <<1, 1, 1>>, <<3, 1, 1>> >>

----------------------------------------------------------------------------
(* The duration of a file *)

\* the seconds that the first track lasts in file f, as its mdhd states them
OwnSeconds(f) ==
    LET h == MdhdOf(f, 1)
    IN  IF h.timescale > 0 /\ h.duration > 0 THEN Fin(h.duration, h.timescale)
        ELSE Zero

\* C21: after the structural pass, file_durations[i] is for every input i the
\* duration in seconds of file i alone: the media duration of the first track
\* in that file divided by its timescale.
C21_FileDurationOwn ==
    (StructuralPassDone /\ ~ReadingBack) =>
        \A f \in 1 .. Len(files) : desc.file_durations[f] = OwnSeconds(f)

\* three files of 1 s each, created 3 s apart: the durations recorded are 1,
\* 2 and 3 s, the gap after the second file (3 - 2 s) is not above the
\* threshold, and the edit list has one empty entry where the files have two
\* gaps of 2 s
C21_Witness ==
    /\ Engine /\ ~ReadingBack /\ Len(files) = 3
    /\ \A f \in 1 .. 3 : OwnSeconds(f) = Fin(1, 1)
    /\ pre.file_creation_times = <<0, GapTime, 2 * GapTime>>
    /\ pre.file_durations = <<Fin(1, 1), Fin(2, 1), Fin(3, 1)>>
    /\ Gaps(pre) = <<Fin(GapTime - 1, 1), Zero>>
    /\ Len(SelectSeq(desc.moov_tracks[1].elst_entries,
                     LAMBDA e : e.media_time = -1)) = 1

----------------------------------------------------------------------------
(* The headers of a skipped track *)

\* the tracks that the first file marked skip
SkippedAtFirst ==
    { t \in 1 .. Len(first) : first[t].skip }

\* C22: after the structural pass, a track marked skip in the first file has
\* the mdhd_duration and the tkhd_duration that the first file contributed,
\* as it has the first file's sample tables.
C22_SkipHeadersFrozen ==
    (StructuralPassDone /\ ~ReadingBack) =>
        \A t \in SkippedAtFirst :
            /\ desc.moov_tracks[t].mdhd_duration = first[t].mdhd_duration
            /\ desc.moov_tracks[t].tkhd_duration = first[t].tkhd_duration

\* two files whose first track is a timecode track of 2 media units and 4
\* movie units in each: the tables are those of the first file, the
\* durations are the sums over both files
C22_Witness ==
    /\ StructuralPassDone /\ ~ReadingBack /\ Len(files) = 2
    /\ 1 \in SkippedAtFirst
    /\ \A f \in 1 .. 2 :
         MdhdOf(f, 1).duration = 2 /\ TkhdOf(f, 1).duration = 4
    /\ SampleTablesOf(desc.moov_tracks[1]) = SampleTablesOf(first[1])
    /\ first[1].stsz_count = 2 /\ desc.moov_tracks[1].stsz_count = 2
    /\ first[1].mdhd_duration = 2 /\ desc.moov_tracks[1].mdhd_duration = 4
    /\ first[1].tkhd_duration = 4 /\ desc.moov_tracks[1].tkhd_duration = 8

----------------------------------------------------------------------------
(* Headers without a timescale *)

\* C23: no timescale conversion of the builder divides by zero: the merge
\* does not abort on a header with timescale 0, and after the structural pass
\* the accumulated durations are the sums of the headers that have a
\* timescale to convert from and to, a header without one adding nothing.
C23_DurationsGuarded ==
    /\ pc # "panic"
    /\ StructuralPassDone =>
        /\ desc.moov_mvhd_duration =
             Total([f \in 1 .. Len(files) |->
                      CeilIn(MvhdOf(f).duration, MvhdOf(f).timescale,
                             OutTimescale)])
        /\ desc.moov_tracks[1].mdhd_duration =
             Total([f \in 1 .. Len(files) |->
                      CeilIn(MdhdOf(f, 1).duration, MdhdOf(f, 1).timescale,
                             TrackTimescale(1))])
        /\ desc.moov_tracks[1].tkhd_duration =
             Total([f \in 1 .. Len(files) |->
                      CeilIn(TkhdOf(f, 1).duration, MvhdOf(f).timescale,
                             OutTimescale)])

\* the second of two files has an mdhd with timescale 0 and duration 1, the
\* first one a timescale and no duration: the division is done, its infinity
\* is recorded as the duration of the file for the track and is cast to
\* u64::MAX, the mdhd_duration of the track
C23_Witness ==
    /\ StructuralPassDone /\ Len(files) = 2
    /\ MdhdOf(1, 1).timescale = 1 /\ MdhdOf(1, 1).duration = 0
    /\ MdhdOf(2, 1).timescale = 0 /\ MdhdOf(2, 1).duration = 1
    /\ desc.track_file_durations[1][2] = Inf
    /\ desc.moov_tracks[1].mdhd_timescale = 1
    /\ desc.moov_tracks[1].mdhd_duration = U64_MAX

\* the first file has the duration 1 at timescale 1, the second one the
\* duration 1 at timescale 0: adding u64::MAX overflows, and a build with
\* overflow checks aborts
C23_OverflowPanics ==
    /\ pc = "panic" /\ i = 2
    /\ MvhdOf(1).timescale = 1 /\ MvhdOf(1).duration = 1
    /\ MvhdOf(2).timescale = 0 /\ MvhdOf(2).duration = 1
    /\ NextBox.typ = "mvhd"

----------------------------------------------------------------------------
(* Read failures *)

\* the file ends before the end of its boxes
Truncated(file) == Missing(file.boxes) > 0

\* the files that the structural pass has been through, or is in
Met == 1 .. (IF Len(files) < i THEN Len(files) ELSE i)

\* the merge has returned Ok to its caller
Succeeded == pc = "done"

\* C24: the end of a whole file, where a box header cannot be read, ends the
\* walk and the merge goes on (it fails only in the trailer probe or in the
\* vendor hook); a merge of a file that ends inside a container, before the
\* bytes that the container counts are read, or inside the body of a leaf
\* that is read, does not return success.
C24_ReadFailures ==
    ~ReadingBack =>
        /\ ((\A f \in Met : ~Truncated(files[f])) /\ pc = "error")
              => log[Len(log)].ev \in {"locate", "hook"}
        /\ (\E f \in 1 .. Len(files) : Truncated(files[f])) => ~Succeeded

\* the second of two files ends in moov after its mvhd: the builder returns
\* Ok, the track has the durations of the first file alone, and the merge
\* returns success
C24_Witness ==
    /\ ~ReadingBack /\ Succeeded /\ Len(files) = 2
    /\ ~Truncated(files[1]) /\ Truncated(files[2])
    /\ MoovOf(2).kids = << Mvhd(2, 2), Eof(140) >>
    /\ desc.moov_mvhd_duration = 4
    /\ desc.moov_tracks[1].mdhd_duration = 2
    /\ desc.moov_tracks[1].tkhd_duration = 2

\* a file that ends in the body of mdhd: the merge returns the error
C24_BodyReadFailed ==
    /\ ~ReadingBack /\ pc = "error" /\ stack # <<>> /\ Top.boxes # <<>>
    /\ NextBox.typ = "mdhd" /\ BodyCut(NextBox)

----------------------------------------------------------------------------
(* The sizes of the output *)

\* every box of a tree of boxes, the outer ones first
RECURSIVE Flat(_)
Flat(boxes) ==
    IF boxes = <<>> THEN <<>>
    ELSE << Head(boxes) >>
         \o (IF has_children_write(Head(boxes).typ) THEN Flat(Head(boxes).kids)
             ELSE <<>>)
         \o Flat(Tail(boxes))

\* the bytes of a rewritten table as the box format lays them out: size,
\* type, version and flags, then the fields and entries of its type
Emitted(box) ==
    LET n == Len(box.entries)
    IN  4 + 4 + 4 +
        (CASE box.typ = "elst" -> 4 + n * (8 + 8 + 4)
           [] box.typ = "stts" -> 4 + n * (4 + 4)
           [] box.typ = "stsz" -> 4 + 4 + n * 4
           [] box.typ = "stss" -> 4 + n * 4
           [] box.typ = "co64" -> 4 + n * 8
           [] box.typ = "sdtp" -> n
           [] box.typ = "stsc" -> 4 + n * (4 + 4 + 4))

KidSizes(box) == [k \in 1 .. Len(box.kids) |-> box.kids[k].size]

\* the children lie one after another behind the 8-byte header
Packed(box) ==
    \A k \in 1 .. Len(box.kids) :
        box.kids[k].at = box.at + 8 + Total(SubSeq(KidSizes(box), 1, k - 1))

\* the size of the box in the first file
SizeRead(box) == InSize(box, 0)

----------------------------------------------------------------------------
(* Termination of the walks *)

\* a walk has come back to a place it has read from before, in the state it
\* was in then
Hangs == pc = "hang"

\* C26: no walk over the boxes of an input comes back to a place it has
\* been at: a header with the size field 0 stops the walk or is passed, and
\* every walk comes to its end.
C26_WalksTerminate == ~Hangs

\* the second file has a header with size 0 between moov and mdat: the scan
\* for mdat seeks to the place of that header after it has read it
C26_Witness ==
    /\ Hangs /\ ~ReadingBack /\ i = 2
    /\ ~Revisits(files[1]) /\ Revisits(files[2])
    /\ \E k \in 1 .. Len(files[2].boxes) : files[2].boxes[k].typ = "mdat"

\* with the header of size 0 behind mdat, the scan does not meet it, the
\* builder passes it and the rewriter stops at it: the merge is finished
C26_SentinelBehind ==
    /\ pc = "done" /\ ~ReadingBack
    /\ \A f \in 1 .. 2 :
         files[f].boxes[Len(files[f].boxes)].typ = "size0"

----------------------------------------------------------------------------
(* The stsz box written *)

\* the samples that the files merged into track t count in their stsz boxes
SamplesMerged(t) ==
    Total([f \in 1 .. Len(Merge.files) |->
             IF f > 1 /\ Merge.desc.moov_tracks[t].skip THEN 0
             ELSE Total([b \in 1 .. Len(InputTables(f, t, "stsz")) |->
                           InputTables(f, t, "stsz")[b].count])])

StszWritten(t) ==
    \A b \in 1 .. Len(OutTables(t, "stsz")) :
        LET stsz  == OutTables(t, "stsz")[b]
            track == desc.moov_tracks[t]
        IN  /\ stsz.sample_size = track.stsz_sample_size
            /\ stsz.count = track.stsz_count
            /\ stsz.count = SamplesMerged(t)
            /\ Len(stsz.entries) =
                   IF stsz.sample_size = 0 THEN stsz.count ELSE 0

\* C27: the stsz box written has stsz_sample_size, then stsz_count, the
\* samples of all the files merged, and the array of sizes only if
\* stsz_sample_size is 0, with stsz_count entries; so it is too when some
\* files have a constant size and others an array.
C27_StszWritten ==
    Rewritten => \A t \in 1 .. Len(OutTraks) : StszWritten(t)

\* the first file has an array of two sizes and the second the constant 4:
\* the box written has the constant 4, four samples, and two sizes after them
C27_Witness ==
    /\ Rewritten /\ pc = "done"
    /\ Len(files) = 2 /\ OutTraks # <<>>
    /\ Len(OutTables(1, "stsz")) = 1
    /\ \A f \in 1 .. 2 : Len(InputTables(f, 1, "stsz")) = 1
    /\ InputTables(1, 1, "stsz")[1].sample_size = 0
    /\ InputTables(2, 1, "stsz")[1].sample_size = 4
    /\ OutTables(1, "stsz")[1].sample_size = 4
    /\ OutTables(1, "stsz")[1].count = 4
    /\ Len(OutTables(1, "stsz")[1].entries) = 2

\* where the files give the sizes in the same way, the box is as said
C27_StszWrittenAlike ==
    Rewritten => \A t \in 1 .. Len(OutTraks) : SizedAlike(t) => StszWritten(t)

----------------------------------------------------------------------------
(* The headers written *)

\* the words of the duration of a header, where the builder reads it
DurationWords(box) ==
    LET k == duration_at(box.typ, box.version) \div 4 + 1
    IN  IF box.version = 1 THEN {k, k + 1} ELSE {k}

\* the header written is the header of the first file but for its duration,
\* and the builder reads this duration from it
PatchedAs(written, read, duration) ==
    /\ written.version = read.version
    /\ Len(written.words) = Len(read.words)
    /\ \A k \in 1 .. Len(read.words) :
          k \notin DurationWords(read) => written.words[k] = read.words[k]
    /\ header_duration(written) = duration

\* the headers of type typ that are written, with those of the first file and
\* the durations of the descriptor, for the tracks that the descriptor has
HeadersPatched(typ, versions) ==
    /\ typ = "mvhd" =>
          \A b \in 1 .. Len(Find(out.boxes, "mvhd")) :
              MvhdOf(1).version \in versions =>
                  PatchedAs(Find(out.boxes, "mvhd")[b], MvhdOf(1),
                            desc.moov_mvhd_duration)
    /\ typ # "mvhd" =>
          \A t \in 1 .. Len(OutTraks) \cap 1 .. Len(desc.moov_tracks) :
              \A b \in 1 .. Len(Find(OutTraks[t].kids, typ)) :
                  LET read == IF typ = "tkhd" THEN TkhdOf(1, t)
                              ELSE MdhdOf(1, t)
                      track == desc.moov_tracks[t]
                  IN  read.version \in versions =>
                          PatchedAs(Find(OutTraks[t].kids, typ)[b], read,
                                    IF typ = "tkhd" THEN track.tkhd_duration
                                    ELSE track.mdhd_duration)

\* C28: mvhd, tkhd and mdhd of version 0 and of version 1 are written as the
\* first file has them, but for the duration, which is written where the
\* builder reads it: read from the output, it is the duration of the
\* descriptor, and no other byte of the box is changed.
C28_HeadersPatched ==
    Rewritten => \A typ \in HeaderTypes : HeadersPatched(typ, {0, 1})

\* two files with headers of version 1 and track durations 1 and 2: the
\* descriptor has 3, the builder reads 0 from the tkhd written, and the word
\* after the duration, which was 109, is 3
C28_Witness ==
    /\ Rewritten /\ pc = "done" /\ Len(files) = 2
    /\ \A f \in 1 .. 2 : TkhdOf(f, 1).version = 1
    /\ desc.moov_tracks[1].tkhd_duration = 3
    /\ Len(Find(OutTraks[1].kids, "tkhd")) = 1
    /\ header_duration(Find(OutTraks[1].kids, "tkhd")[1]) = 0
    /\ TkhdOf(1, 1).words[9] = 109
    /\ Find(OutTraks[1].kids, "tkhd")[1].words[9] = 3

\* mvhd and mdhd in both versions, and tkhd in version 0, are written as said
C28_HeadersPatchedButTkhd1 ==
    Rewritten =>
        /\ HeadersPatched("mvhd", {0, 1})
        /\ HeadersPatched("mdhd", {0, 1})
        /\ HeadersPatched("tkhd", {0})

----------------------------------------------------------------------------
(* Tracks beyond the capacity of the descriptor *)

\* the builder is at the mdhd of a track, and reads it in this step
AtMdhd == Reading /\ NextBox.typ = "mdhd" /\ ~ReadingBack

\* after the step the table of durations has a row for the track, the rows
\* added have one slot of zero for each file but for the slot written, and
\* the slot of the track and the file has the seconds of the mdhd
RowsGrown ==
    LET t    == TlTrack
        rows == desc'.track_file_durations
    IN  /\ Len(rows) >= t
        /\ \A r \in (Len(desc.track_file_durations) + 1) .. Len(rows) :
              /\ Len(rows[r]) = Len(files)
              /\ \A f \in 1 .. Len(files) :
                    (r # t \/ f # i) => rows[r][f] = Zero
        /\ rows[t][i] = FDiv(header_duration(NextBox), header_timescale(NextBox))

\* the merge is given up in this step at a track beyond the capacity
AbortsBeyond ==
    /\ pc # "panic" /\ pc' = "panic"
    /\ stack # <<>> /\ TlTrack > TRACK_CAPACITY

\* C29: when the builder reads the mdhd of track t in file f, whatever t is,
\* the table of durations has more than t rows afterwards, the rows added
\* are zero in one slot for each file, and the slot of t and f has the
\* duration of the mdhd over its timescale; no track beyond the capacity of
\* the descriptor makes the merge give up.
C29_RowsGrown ==
    [][(AtMdhd => RowsGrown) /\ ~AbortsBeyond]_vars

\* the first file has eleven traks and the last one has an stts table: the
\* builder gives up at that table, and the table of durations has ten rows
C29_Witness ==
    /\ pc = "panic" /\ ~ReadingBack /\ i = 1
    /\ Len(TraksOf(1)) = TRACK_CAPACITY + 1
    /\ stack # <<>> /\ TlTrack = TRACK_CAPACITY + 1
    /\ Top.boxes # <<>> /\ NextBox.typ = "stts"
    /\ Len(desc.track_file_durations) = TRACK_CAPACITY

\* eleven traks of headers only: the merge is finished, and the table of
\* durations has no row for the eleventh
C29_RowMissing ==
    /\ pc = "done" /\ ~ReadingBack
    /\ Len(TraksOf(1)) = TRACK_CAPACITY + 1
    /\ Len(desc.track_file_durations) = TRACK_CAPACITY

\* for the tracks that the descriptor has, the slot is written as said
C29_RowsWithinCapacity ==
    [][(AtMdhd /\ HasTrack /\ pc' # "panic") => RowsGrown]_vars

----------------------------------------------------------------------------
(* The places of the post-patch *)

\* the places at which the post-patch writes the chunk offsets of track t
TrackWrites(t) ==
    { desc.moov_tracks[t].co64_final_position + 8 * (c - 1) :
        c \in 1 .. Len(desc.moov_tracks[t].stco) }

\* the places of the entries of the co64 boxes written for track t
TrackEntries(t) ==
    IF t <= Len(OutTraks) THEN EntryPlaces(OutTraks[t].kids) ELSE {}

PatchInPlace ==
    /\ out.stray = <<>>
    /\ \A t \in 1 .. Len(desc.moov_tracks) : TrackWrites(t) \subseteq TrackEntries(t)

\* C30: the post-patch writes at the places of the co64 entries that the
\* rewriter has written for the same track and nowhere else; for a track
\* for which no chunk-offset table was written it changes no byte.
C30_PatchInPlace == PostPatched => PatchInPlace

\* the trak of the first file has no chunk-offset table and the track has
\* two chunks from the second file: co64_final_position is 0 as it was at
\* the start, and the two offsets are written at the bytes 0 and 8 of the
\* output, over its ftyp box
C30_Witness ==
    /\ PostPatched /\ pc = "done" /\ Len(files) = 2
    /\ OutTraks # <<>> /\ out.boxes # <<>>
    /\ ChunkTables(TrakOf(1, 1).kids) = <<>>
    /\ ChunkTables(OutTraks[1].kids) = <<>>
    /\ Len(desc.moov_tracks[1].stco) = 2
    /\ desc.moov_tracks[1].co64_final_position = 0
    /\ Len(out.stray) >= 2
    /\ out.stray[1].at = 0 /\ out.stray[2].at = 8
    /\ out.boxes[1].typ = "ftyp" /\ out.boxes[1].at = 0

\* where every track with chunks has had a table written, the post-patch
\* writes in place
C30_PatchInPlaceTabled ==
    (PostPatched /\ \A t \in 1 .. Len(desc.moov_tracks) :
                      desc.moov_tracks[t].stco # <<>> =>
                          t <= Len(OutTraks)
                          /\ ChunkTables(OutTraks[t].kids) # <<>>)
        => PatchInPlace

====
